---- MODULE Spec2Model ----
(***************************************************************************)
(* A model of the par-lang front end: the token-level parser of            *)
(* src/par/parser.rs and the interaction-net compiler of                   *)
(* src/icombs/compiler.rs.                                                 *)
(***************************************************************************)
EXTENDS Integers, Sequences, FiniteSets, Bags, TLC

VARIABLES program, compiler, next_key, compiled, parsing

vars == <<program, compiler, next_key, compiled, parsing>>

(***************************************************************************)
(* Bounds of the model.                                                    *)
(***************************************************************************)
MaxDefs == 3

(***************************************************************************)
(* Session types (types.rs is not part of the sources at hand; the shape   *)
(* of Type and dual follow section 3 of the specification).                *)
(***************************************************************************)
TBreak == [t |-> "Break"]
TContinue == [t |-> "Continue"]
TSend(a, b) == [t |-> "Send", a |-> a, b |-> b]
TReceive(a, b) == [t |-> "Receive", a |-> a, b |-> b]
TEither(br) == [t |-> "Either", br |-> br]
TChoice(br) == [t |-> "Choice", br |-> br]
TChan(a) == [t |-> "Chan", a |-> a]

RECURSIVE dual(_)
dual(ty) ==
    CASE ty.t = "Break" -> TContinue
      [] ty.t = "Continue" -> TBreak
      [] ty.t = "Send" -> TReceive(ty.a, dual(ty.b))
      [] ty.t = "Receive" -> TSend(ty.a, dual(ty.b))
      [] ty.t = "Either" ->
            TChoice([i \in 1..Len(ty.br) |->
                        [name |-> ty.br[i].name, ty |-> dual(ty.br[i].ty)]])
      [] ty.t = "Choice" ->
            TEither([i \in 1..Len(ty.br) |->
                        [name |-> ty.br[i].name, ty |-> dual(ty.br[i].ty)]])
      [] ty.t = "Chan" -> ty.a

(***************************************************************************)
(* Trees and the net (net.rs is not part of the sources at hand; the net   *)
(* primitives follow section 4.2 of the specification).  The two ends of   *)
(* a wire share its id and are told apart by `end`.                        *)
(***************************************************************************)
TreeE == [k |-> "E"]
TreeC(l, r) == [k |-> "C", l |-> l, r |-> r]
TreeD(l, r) == [k |-> "D", l |-> l, r |-> r]
Wire(id, end) == [k |-> "W", id |-> id, end |-> end]
Package(id) == [k |-> "P", id |-> id]

NetDefault == [ports |-> <<>>, links |-> <<>>, wires |-> 0]

\* net.create_wire(): the two fresh ends are Wire(net.wires, 0) and Wire(net.wires, 1)
create_wire(net) == [net EXCEPT !.wires = @ + 1]

\* net.link(a, b)
link(net, a, b) == [net EXCEPT !.links = Append(@, <<a, b>>)]

\* net.normal(): opaque reduction; the model keeps the net as compiled
normal(net) == net

(***************************************************************************)
(* IndexMap: an insertion-ordered map, kept as a sequence of records that  *)
(* all have a `name` field.                                                *)
(***************************************************************************)
get_index_of(m, name) ==
    IF \E i \in 1..Len(m) : m[i].name = name
    THEN CHOOSE i \in 1..Len(m) : m[i].name = name
    ELSE 0

\* IndexMap::insert: replaces the value in place when the key is present
insert(m, ent) ==
    LET i == get_index_of(m, ent.name) IN
    IF i = 0 THEN Append(m, ent) ELSE [m EXCEPT ![i] = ent]

\* a variant of swap_remove that leaves the entry in the map
swap_remove_nothing(m, i) == m

\* IndexMap::swap_remove: the last entry takes the place of the removed one
swap_remove(m, i) ==
    LET n == Len(m) IN
    [j \in 1..(n - 1) |-> IF j = i THEN m[n] ELSE m[j]]

(***************************************************************************)
(* Typed expressions, processes and commands (process.rs).                 *)
(***************************************************************************)
Reference(name, ty) == [e |-> "Reference", name |-> name, ty |-> ty]
Fork(captures, name, typ, proc) ==
    [e |-> "Fork", captures |-> captures, name |-> name, typ |-> typ, proc |-> proc]

Let(key, value, rest) == [p |-> "Let", key |-> key, value |-> value, rest |-> rest]
Do(name, ty, cmd) == [p |-> "Do", name |-> name, ty |-> ty, cmd |-> cmd]
Pass == [p |-> "Pass"]

CmdLink(a) == [c |-> "Link", a |-> a]
CmdBreak == [c |-> "Break"]
CmdContinue(process) == [c |-> "Continue", process |-> process]
CmdSend(expr, process) == [c |-> "Send", expr |-> expr, process |-> process]
CmdReceive(target, process) == [c |-> "Receive", target |-> target, process |-> process]
CmdSendType(process) == [c |-> "SendType", process |-> process]
CmdReceiveType(process) == [c |-> "ReceiveType", process |-> process]
CmdMatch(names, processes) == [c |-> "Match", names |-> names, processes |-> processes]
CmdChoose(chosen, process) == [c |-> "Choose", chosen |-> chosen, process |-> process]

(***************************************************************************)
(* The compiler state (struct Compiler).  `err` is the message of the      *)
(* panic that ended the compilation ("" while none happened), `ret` the    *)
(* value returned by the last call, and `log` a history of what happened   *)
(* to the variable environment and to the globals, kept for the            *)
(* properties; `binds` numbers the bindings so that the history can tell   *)
(* two bindings of one name apart.                                         *)
(***************************************************************************)
NoRet == [some |-> FALSE]
TypedTree(tree, ty) == [some |-> TRUE, tree |-> tree, ty |-> ty, kind |-> "Linear"]
Used(tree, ty, kind) == [some |-> TRUE, tree |-> tree, ty |-> ty, kind |-> kind]

NewCompiler(prog) ==
    [net |-> NetDefault,
     vars |-> <<>>,
     program |-> prog,
     global_name_to_id |-> <<>>,
     id_to_ty |-> <<>>,
     id_to_package |-> <<>>,
     err |-> "",
     ret |-> NoRet,
     binds |-> 0,
     log |-> <<>>]

\* what a call may change besides its return value
Frame(c) ==
    [net |-> c.net, vars |-> c.vars, global_name_to_id |-> c.global_name_to_id,
     id_to_ty |-> c.id_to_ty, id_to_package |-> c.id_to_package]

panic(c, msg) == [c EXCEPT !.err = msg]

Logged(c, ev) == [c EXCEPT !.log = Append(@, ev)]

\* self.vars.insert(name, (tree, kind)) with its history entry
vars_insert(c, name, tree, ty, kind, site) ==
    LET i == get_index_of(c.vars, name)
        b == c.binds + 1
        ent == [name |-> name, tree |-> tree, ty |-> ty, kind |-> kind, bind |-> b]
    IN  [c EXCEPT !.vars = insert(@, ent),
                  !.binds = b,
                  !.log = Append(@, [ev |-> "insert", name |-> name, kind |-> kind,
                                     ty |-> ty, bind |-> b, site |-> site,
                                     replaced |-> IF i = 0 THEN 0 ELSE c.vars[i].bind,
                                     replaced_kind |-> IF i = 0 THEN "" ELSE c.vars[i].kind])]

\* fn bind_variable: the insert happens, then the assertion on its result
bind_variable(c, name, tree, ty, site) ==
    IF c.err # "" THEN c
    ELSE LET present == get_index_of(c.vars, name) # 0
             c1 == vars_insert(c, name, tree, ty, "Linear", site)
         IN  IF present THEN panic(c1, "assertion failed") ELSE c1

\* a variant of multiplex_trees that splits off the first tree only
RECURSIVE multiplex_trees_chain(_)
multiplex_trees_chain(trees) ==
    IF Len(trees) = 0 THEN TreeE
    ELSE IF Len(trees) = 1 THEN trees[1]
    ELSE TreeC(trees[1], multiplex_trees_chain(Tail(trees)))

\* fn multiplex_trees
RECURSIVE multiplex_trees(_)
multiplex_trees(trees) ==
    IF Len(trees) = 0 THEN TreeE
    ELSE IF Len(trees) = 1 THEN trees[1]
    ELSE LET h == Len(trees) \div 2 IN
         TreeC(multiplex_trees(SubSeq(trees, 1, h)),
               multiplex_trees(SubSeq(trees, h + 1, Len(trees))))

\* a variant of create_typed_wire that creates no wire: the caller gets the
\* id of the wire that is created next
create_typed_wire_reusing(c) == c

\* fn create_typed_wire: (v0 : t, v1 : t.dual()) are Wire(c.net.wires, 0 / 1)
create_typed_wire(c) == [c EXCEPT !.net = create_wire(@)]

\* what a call gives back in place of a tree when it panics
NoTree(msg) == [k |-> "panic", msg |-> msg]

\* a variant of choice_instance that counts the positions from one
choice_instance_from_one(w, tree, index, out_of) ==
    LET trees == [i \in 1..out_of |->
                    IF i = index THEN TreeC(Wire(w, 1), tree) ELSE TreeE]
    IN  IF index >= out_of THEN NoTree("called Option::unwrap() on a None value")
        ELSE TreeC(Wire(w, 0), multiplex_trees(trees))

\* fn choice_instance: the tree built, w being the id of the wire it creates;
\* trees.get_mut(index).unwrap() panics when there is no such position
choice_instance(w, tree, index, out_of) ==
    LET trees == [i \in 1..out_of |->
                    IF i = index + 1 THEN TreeC(Wire(w, 1), tree) ELSE TreeE]
    IN  IF index >= out_of THEN NoTree("called Option::unwrap() on a None value")
        ELSE TreeC(Wire(w, 0), multiplex_trees(trees))

\* fn either_instance
either_instance(ctx_out, cases) ==
    TreeC(ctx_out, multiplex_trees([i \in 1..Len(cases) |-> TreeC(cases[i][1], cases[i][2])]))

RECURSIVE Call(_, _)

\* fn compile_global
compile_global(c, name) ==
    IF c.err # "" THEN c
    ELSE
    LET g == get_index_of(c.global_name_to_id, name) IN
    IF g # 0
    THEN LET id == c.global_name_to_id[g].id IN
         IF id >= Len(c.id_to_ty)
         THEN panic(c, "called Option::unwrap() on a None value")
         ELSE Logged([c EXCEPT !.ret = TypedTree(Package(id), c.id_to_ty[id + 1])],
                     [ev |-> "global", name |-> name, memo |-> TRUE, id |-> id,
                      ty |-> c.id_to_ty[id + 1], before |-> Frame(c),
                      after |-> Frame([c EXCEPT !.ret =
                                          TypedTree(Package(id), c.id_to_ty[id + 1])])])
    ELSE
    LET d == get_index_of(c.program.definitions, name) IN
    IF d = 0 THEN [c EXCEPT !.ret = NoRet]
    ELSE
    LET global == c.program.definitions[d].expr
        old_net == c.net
        id == Len(c.id_to_package)
        c1 == Logged([c EXCEPT !.net = NetDefault,
                               !.global_name_to_id = insert(@, [name |-> name, id |-> id])],
                     [ev |-> "enter", name |-> name, binds |-> c.binds])
        c2 == Call("with_captures", <<c1, <<>>, [f |-> "global", expr |-> global]>>)
        tree == c2.ret
        c3 == [c2 EXCEPT !.net.ports = Append(@, tree.tree)]
        c4 == [c3 EXCEPT !.net = normal(@)]
        package_contents == c4.net.ports[Len(c4.net.ports)]
        c5 == [c4 EXCEPT !.net.ports = SubSeq(@, 1, Len(@) - 1)]
    IN  IF c2.err # "" THEN c2
        ELSE Logged([c5 EXCEPT !.id_to_ty = Append(@, tree.ty),
                               !.id_to_package = Append(@, package_contents),
                               !.net = old_net,
                               !.ret = TypedTree(Package(id), tree.ty)],
                    [ev |-> "global", name |-> name, memo |-> FALSE, id |-> id,
                     ty |-> tree.ty, net |-> c5.net, tree |-> package_contents,
                     before |-> Frame(c),
                     after |-> Frame([c5 EXCEPT !.id_to_ty = Append(@, tree.ty),
                                                !.id_to_package = Append(@, package_contents),
                                                !.net = old_net])])

\* the loop of with_captures over captures.names; inner is the new map
capture_all(c, names, i, inner) ==
    IF c.err # "" \/ i > Len(names) THEN [c |-> c, inner |-> inner]
    ELSE LET c1 == Call("use_variable", <<c, names[i]>>)
             b == c1.binds + 1
             c2 == Logged([c1 EXCEPT !.binds = b],
                          [ev |-> "insert", name |-> names[i], kind |-> c1.ret.kind,
                           ty |-> c1.ret.ty, bind |-> b, site |-> "capture",
                           replaced |-> IF get_index_of(inner, names[i]) = 0 THEN 0
                                        ELSE inner[get_index_of(inner, names[i])].bind,
                           replaced_kind |-> IF get_index_of(inner, names[i]) = 0 THEN ""
                                        ELSE inner[get_index_of(inner, names[i])].kind])
         IN  IF c1.err # "" THEN [c |-> c1, inner |-> inner]
             ELSE Call("capture_all", <<c2, names, i + 1,
                              insert(inner, [name |-> names[i], tree |-> c1.ret.tree,
                                             ty |-> c1.ret.ty, kind |-> c1.ret.kind,
                                             bind |-> b])>>)

\* the end of with_captures: "drop all replicables"
RECURSIVE drop_all(_, _, _)
drop_all(c, inner, i) ==
    IF c.err # "" \/ i > Len(inner) THEN c
    ELSE IF inner[i].kind = "Linear"
         THEN panic(Logged(c, [ev |-> "unclosed", name |-> inner[i].name,
                               bind |-> inner[i].bind]),
                    "some variables were not closed")
         ELSE drop_all(Logged([c EXCEPT !.net = link(@, inner[i].tree, TreeE)],
                              [ev |-> "erase", name |-> inner[i].name,
                               bind |-> inner[i].bind, tree |-> inner[i].tree]),
                       inner, i + 1)

\* a variant of with_captures without the two swaps: the closure runs in
\* the environment of the caller
with_captures_without_swap(c, captures, f) ==
    IF c.err # "" THEN c
    ELSE LET cap == Call("capture_all", <<c, captures, 1, <<>>>>)
             c2 == Call("run_closure", <<cap.c, f>>)
             t == c2.ret
             c4 == drop_all(c2, cap.inner, 1)
         IN  IF cap.c.err # "" THEN cap.c
             ELSE IF c2.err # "" THEN c2
             ELSE IF c4.err # "" THEN c4
             ELSE [c4 EXCEPT !.ret = t]

\* fn with_captures; f describes the closure it is given
with_captures(c, captures, f) ==
    IF c.err # "" THEN c
    ELSE LET cap == Call("capture_all", <<c, captures, 1, <<>>>>)
             outer == cap.c.vars
             c1 == [cap.c EXCEPT !.vars = cap.inner]
             c2 == Call("run_closure", <<c1, f>>)
             t == c2.ret
             c3 == [c2 EXCEPT !.vars = outer]
             c4 == drop_all(c3, c2.vars, 1)
         IN  IF cap.c.err # "" THEN cap.c
             ELSE IF c2.err # "" THEN c2
             ELSE IF c4.err # "" THEN c4
             ELSE [c4 EXCEPT !.ret = t]

\* the two closures handed to with_captures
run_closure(c, f) ==
    IF f.f = "global"
    THEN Call("compile_expression", <<c, f.expr>>)
    ELSE \* Expression::Fork
         LET w == c.net.wires
             c1 == create_typed_wire(c)
             c2 == bind_variable(c1, f.name, Wire(w, 0), f.typ, "fork")
             c3 == Call("compile_process", <<c2, f.proc>>)
         IN  IF c3.err # "" THEN c3
             ELSE [c3 EXCEPT !.ret = TypedTree(Wire(w, 1), dual(f.typ))]

\* a variant of use_variable that looks the name up in the environment only
use_variable_local(c, name) ==
    IF c.err # "" THEN c
    ELSE
    LET i == get_index_of(c.vars, name)
        c0 == Logged(c, [ev |-> "use", name |-> name, bound |-> i # 0])
    IN
    IF i # 0
    THEN LET ent == c0.vars[i]
             c1 == Logged([c0 EXCEPT !.vars = swap_remove(@, i)],
                          [ev |-> "remove", name |-> name, kind |-> ent.kind,
                           bind |-> ent.bind])
         IN  IF ent.kind = "Linear"
             THEN [c1 EXCEPT !.ret = Used(ent.tree, ent.ty, ent.kind)]
             ELSE LET w == c1.net.wires
                      v == w + 1
                      c2 == [c1 EXCEPT !.net = create_wire(create_wire(@))]
                      c3 == [c2 EXCEPT !.net =
                                link(@, TreeD(Wire(v, 0), Wire(w, 0)), ent.tree)]
                      c4 == vars_insert(c3, name, Wire(w, 1), ent.ty, ent.kind, "reuse")
                  IN  [c4 EXCEPT !.ret = Used(Wire(v, 1), ent.ty, ent.kind)]
    ELSE panic(c0, "unknown variable")

\* a variant of use_variable that hands every stored handle out as it is,
\* whatever its kind
use_variable_moving(c, name) ==
    IF c.err # "" THEN c
    ELSE
    LET i == get_index_of(c.vars, name)
        c0 == Logged(c, [ev |-> "use", name |-> name, bound |-> i # 0])
    IN
    IF i # 0
    THEN LET ent == c0.vars[i] IN
         [Logged([c0 EXCEPT !.vars = swap_remove(@, i)],
                 [ev |-> "remove", name |-> name, kind |-> ent.kind, bind |-> ent.bind])
             EXCEPT !.ret = Used(ent.tree, ent.ty, ent.kind)]
    ELSE LET g1 == Call("compile_global", <<c0, name>>) IN
         IF g1.err # "" THEN g1
         ELSE IF g1.ret.some
         THEN LET g2 == Call("compile_global", <<g1, name>>)
                  value == g2.ret
              IN  IF g2.err # "" THEN g2
                  ELSE [vars_insert(g2, name, value.tree, value.ty, "Replicable", "global")
                            EXCEPT !.ret = Used(value.tree, value.ty, "Replicable")]
         ELSE panic(c0, "unknown variable")

\* fn use_variable; the history keeps every call and whether the name was bound
use_variable(c, name) ==
    IF c.err # "" THEN c
    ELSE
    LET i == get_index_of(c.vars, name)
        c0 == Logged(c, [ev |-> "use", name |-> name, bound |-> i # 0])
    IN
    IF i # 0
    THEN LET ent == c0.vars[i]
             c1 == Logged([c0 EXCEPT !.vars = swap_remove(@, i)],
                          [ev |-> "remove", name |-> name, kind |-> ent.kind,
                           bind |-> ent.bind])
         IN  IF ent.kind = "Linear"
             THEN [c1 EXCEPT !.ret = Used(ent.tree, ent.ty, ent.kind)]
             ELSE LET w == c1.net.wires
                      v == w + 1
                      c2 == [c1 EXCEPT !.net = create_wire(create_wire(@))]
                      c3 == [c2 EXCEPT !.net =
                                link(@, TreeD(Wire(v, 0), Wire(w, 0)), ent.tree)]
                      c4 == vars_insert(c3, name, Wire(w, 1), ent.ty, ent.kind, "reuse")
                  IN  [c4 EXCEPT !.ret = Used(Wire(v, 1), ent.ty, ent.kind)]
    ELSE LET g1 == Call("compile_global", <<c0, name>>) IN
         IF g1.err # "" THEN g1
         ELSE IF g1.ret.some
         THEN LET g2 == Call("compile_global", <<g1, name>>)
                  value == g2.ret
              IN  IF g2.err # "" THEN g2
                  ELSE [vars_insert(g2, name, value.tree, value.ty, "Replicable", "global")
                            EXCEPT !.ret = Used(value.tree, value.ty, "Replicable")]
         ELSE panic(c0, "unknown variable")

\* fn instantiate_variable
instantiate_variable(c, name) ==
    LET c1 == Call("use_variable", <<c, name>>) IN
    IF c1.err # "" THEN c1
    ELSE IF c1.ret.kind = "Boxed" THEN panic(c1, "not yet implemented")
    ELSE c1

\* a variant of the loop of cast that takes the index of a branch from its
\* place in from_choices
cast_choices_in_source_order(c, from_choices, to_choices, i, cases) ==
    IF c.err # "" \/ i > Len(from_choices) THEN [c |-> c, cases |-> cases]
    ELSE LET x == c.net.wires
             c1 == create_typed_wire(c)
             index == get_index_of(to_choices, from_choices[i].name)
             w == c1.net.wires
             instance == choice_instance(w, Wire(x, 1), i - 1, Len(to_choices))
             c2 == Logged([c1 EXCEPT !.net = create_wire(@)],
                          [ev |-> "instance", site |-> "cast",
                           branch |-> from_choices[i].name, branches |-> to_choices,
                           index |-> i - 1, out_of |-> Len(to_choices),
                           tree |-> instance, other |-> Wire(x, 0)])
         IN  IF index = 0
             THEN [c |-> panic(c1, "Can't cast between these choices"), cases |-> cases]
             ELSE IF instance.k = "panic" THEN [c |-> panic(c1, instance.msg), cases |-> cases]
             ELSE Call("cast_choices", <<c2, from_choices, to_choices, i + 1,
                     Append(cases, <<instance, Wire(x, 0)>>)>>)

\* the loop of cast over from_choices; the result carries the cases built,
\* and the history keeps each choice_instance
cast_choices(c, from_choices, to_choices, i, cases) ==
    IF c.err # "" \/ i > Len(from_choices) THEN [c |-> c, cases |-> cases]
    ELSE LET x == c.net.wires
             c1 == create_typed_wire(c)
             index == get_index_of(to_choices, from_choices[i].name)
             w == c1.net.wires
             instance == choice_instance(w, Wire(x, 1), index - 1, Len(to_choices))
             c2 == Logged([c1 EXCEPT !.net = create_wire(@)],
                          [ev |-> "instance", site |-> "cast",
                           branch |-> from_choices[i].name, branches |-> to_choices,
                           index |-> index - 1, out_of |-> Len(to_choices),
                           tree |-> instance, other |-> Wire(x, 0)])
         IN  IF index = 0
             THEN [c |-> panic(c1, "Can't cast between these choices"), cases |-> cases]
             ELSE IF instance.k = "panic" THEN [c |-> panic(c1, instance.msg), cases |-> cases]
             ELSE Call("cast_choices", <<c2, from_choices, to_choices, i + 1,
                     Append(cases, <<instance, Wire(x, 0)>>)>>)

\* fn cast
cast(c, from, to) ==
    IF c.err # "" THEN c
    ELSE
    CASE from.ty.t = "Send" /\ to.t = "Send" ->
            LET fst == c.net.wires
                snd == fst + 1
                c1 == create_typed_wire(create_typed_wire(c))
                c2 == [c1 EXCEPT !.net =
                          link(@, from.tree, TreeC(Wire(fst, 1), Wire(snd, 1)))]
                c3 == Call("cast", <<c2, TypedTree(Wire(fst, 0), from.ty.a), to.a>>)
                c4 == Call("cast", <<c3, TypedTree(Wire(snd, 0), from.ty.b), to.b>>)
            IN  IF c3.err # "" THEN c3
                ELSE IF c4.err # "" THEN c4
                ELSE [c4 EXCEPT !.ret = TypedTree(TreeC(c3.ret.tree, c4.ret.tree), to)]
      [] from.ty.t = "Receive" /\ to.t = "Receive" ->
            LET fst == c.net.wires
                snd == fst + 1
                c1 == create_typed_wire(create_typed_wire(c))
                c2 == [c1 EXCEPT !.net =
                          link(@, from.tree, TreeC(Wire(fst, 1), Wire(snd, 1)))]
                c3 == Call("cast", <<c2, TypedTree(Wire(fst, 0), dual(from.ty.a)), dual(to.a)>>)
                c4 == Call("cast", <<c3, TypedTree(Wire(snd, 0), from.ty.b), to.b>>)
            IN  IF c3.err # "" THEN c3
                ELSE IF c4.err # "" THEN c4
                ELSE [c4 EXCEPT !.ret = TypedTree(TreeC(c3.ret.tree, c4.ret.tree), to)]
      [] from.ty.t = "Choice" /\ to.t = "Choice" ->
            LET v == c.net.wires
                c1 == create_typed_wire(c)
                r == Call("cast_choices", <<c1, from.ty.br, to.br, 1, <<>>>>)
                either == either_instance(Wire(v, 1), r.cases)
            IN  IF r.c.err # "" THEN r.c
                ELSE [r.c EXCEPT !.net = link(@, from.tree, either),
                                 !.ret = TypedTree(Wire(v, 0), to)]
      [] from.ty.t = "Break" /\ to.t = "Break" -> [c EXCEPT !.ret = from]
      [] from.ty.t = "Continue" /\ to.t = "Continue" -> [c EXCEPT !.ret = from]
      [] OTHER -> panic(c, "not yet implemented: Can't cast")

\* fn compile_expression
compile_expression(c, expr) ==
    IF c.err # "" THEN c
    ELSE IF expr.e = "Reference"
    THEN LET c1 == Call("instantiate_variable", <<c, expr.name>>) IN
         IF c1.err # "" THEN c1 ELSE Call("cast", <<c1, TypedTree(c1.ret.tree, c1.ret.ty), expr.ty>>)
    ELSE Call("with_captures", <<c, expr.captures,
                       [f |-> "fork", name |-> expr.name, typ |-> expr.typ,
                        proc |-> expr.proc]>>)

\* fn compile_process
compile_process(c, proc) ==
    IF c.err # "" THEN c
    ELSE
    CASE proc.p = "Let" ->
            LET c1 == Call("compile_expression", <<c, proc.value>>) IN
            IF c1.err # "" THEN c1
            ELSE Call("compile_process", <<
                    vars_insert(c1, proc.key, c1.ret.tree, c1.ret.ty, "Linear", "let"),
                    proc.rest>>)
      [] proc.p = "Do" -> Call("compile_command", <<c, proc.name, proc.ty, proc.cmd>>)
      [] OTHER -> panic(c, "not yet implemented")

\* the first loop of Match: for (k, v) in take(&mut self.vars) { Call("use_variable", <<&name>>) }
match_collect(c, name, taken, i) ==
    IF c.err # "" \/ i > Len(taken) THEN [c |-> c, m |-> <<>>]
    ELSE LET c1 == Call("use_variable", <<c, name>>)
             rest == Call("match_collect", <<c1, name, taken, i + 1>>)
         IN  IF c1.err # "" THEN [c |-> c1, m |-> <<>>]
             ELSE [c |-> rest.c,
                   m |-> <<[name |-> taken[i].name, tree |-> c1.ret.tree,
                            ty |-> c1.ret.ty, kind |-> c1.ret.kind]>> \o rest.m]

\* "multiplex the context from the inside": one fresh wire per collected variable
RECURSIVE match_context(_, _, _)
match_context(c, m, i) ==
    IF i > Len(m) THEN [c |-> c, trees |-> <<>>]
    ELSE LET w == c.net.wires
             c1 == vars_insert([c EXCEPT !.net = create_wire(@)],
                               m[i].name, Wire(w, 0), m[i].ty, m[i].kind, "match")
             rest == match_context(c1, m, i + 1)
         IN  [c |-> rest.c, trees |-> <<Wire(w, 1)>> \o rest.trees]

\* the second loop of Match, over names zip processes zip required_branches
match_branches(c, name, cmd, required, m, i) ==
    IF c.err # "" \/ i > Len(cmd.names) \/ i > Len(cmd.processes) \/ i > Len(required)
    THEN [c |-> c, branches |-> <<>>]
    ELSE LET w == c.net.wires
             c1 == create_typed_wire(c)
             c2 == bind_variable(c1, name, Wire(w, 0), required[i].ty, "match subject")
             ctx == match_context(c2, m, 1)
             context_out == multiplex_trees(ctx.trees)
             c3 == Call("compile_process",
                        <<Logged(ctx.c, [ev |-> "branch", subject |-> name,
                                         choice |-> cmd.names[i], index |-> i - 1,
                                         required |-> required, ty |-> required[i].ty,
                                         end |-> Wire(w, 1), vars |-> ctx.c.vars]),
                          cmd.processes[i]>>)
             rest == Call("match_branches", <<c3, name, cmd, required, m, i + 1>>)
         IN  IF c2.err # "" THEN [c |-> c2, branches |-> <<>>]
             ELSE IF c3.err # "" THEN [c |-> c3, branches |-> <<>>]
             ELSE [c |-> rest.c,
                   branches |-> <<TreeC(context_out, Wire(w, 1))>> \o rest.branches]

\* the right-associated chain that ends Match
RECURSIVE branch_chain(_, _)
branch_chain(branches, i) ==
    IF i > Len(branches) THEN TreeE
    ELSE TreeC(branches[i], branch_chain(branches, i + 1))

\* the order of String, on the branch names of the model
Alphabet == <<"a", "b", "c", "l", "r">>
string_lt(x, y) == get_index_of([i \in 1..Len(Alphabet) |-> [name |-> Alphabet[i]]], x)
                       < get_index_of([i \in 1..Len(Alphabet) |-> [name |-> Alphabet[i]]], y)

\* branches.sort_keys() and then get_index_of(chosen)
sorted_index_of(branches, chosen) ==
    Cardinality({i \in 1..Len(branches) : string_lt(branches[i].name, chosen)})

\* fn compile_command
compile_command(c, name, ty, cmd) ==
    IF c.err # "" THEN c
    ELSE
    CASE cmd.c = "Link" ->
            LET c1 == Call("compile_expression", <<c, cmd.a>>)
                c2 == Call("instantiate_variable", <<c1, name>>)
            IN  IF c1.err # "" THEN c1
                ELSE IF c2.err # "" THEN c2
                ELSE [c2 EXCEPT !.net = link(@, c1.ret.tree, c2.ret.tree)]
      [] cmd.c \in {"SendType", "ReceiveType"} -> Call("compile_process", <<c, cmd.process>>)
      [] cmd.c = "Send" ->
            LET c1 == Call("instantiate_variable", <<c, name>>)
                c2 == Call("cast", <<c1, TypedTree(c1.ret.tree, c1.ret.ty), ty>>)
                a == c2.ret
                c3 == Call("compile_expression", <<c2, cmd.expr>>)
                c4 == Call("cast", <<c3, TypedTree(c3.ret.tree, c3.ret.ty), a.ty.a>>)
                expr == c4.ret
                w == c4.net.wires
                c5 == bind_variable(create_typed_wire(c4), name, Wire(w, 0), a.ty.b, "send")
                linked == link(c5.net, TreeC(Wire(w, 1), expr.tree), a.tree)
                c6 == Logged([c5 EXCEPT !.net = linked],
                             [ev |-> "rebind", site |-> "send", name |-> name,
                              handle |-> a.tree, ty |-> a.ty, right |-> expr.tree,
                              before |-> c4.net, after |-> linked, vars |-> c5.vars])
            IN  IF c1.err # "" THEN c1
                ELSE IF c2.err # "" THEN c2
                ELSE IF a.ty.t # "Receive"
                THEN panic(c2, "internal error: entered unreachable code")
                ELSE IF c3.err # "" THEN c3
                ELSE IF c4.err # "" THEN c4
                ELSE IF c5.err # "" THEN c5
                ELSE Call("compile_process", <<c6, cmd.process>>)
      [] cmd.c = "Receive" ->
            LET c1 == Call("instantiate_variable", <<c, name>>)
                c2 == Call("cast", <<c1, TypedTree(c1.ret.tree, c1.ret.ty), ty>>)
                a == c2.ret
                v == c2.net.wires
                w == v + 1
                c3 == create_typed_wire(create_typed_wire(c2))
                c4 == bind_variable(c3, name, Wire(w, 0), a.ty.b, "receive subject")
                c5 == bind_variable(c4, cmd.target, Wire(v, 0), a.ty.a, "receive target")
                linked == link(c5.net, TreeC(Wire(w, 1), Wire(v, 1)), a.tree)
                c6 == Logged([c5 EXCEPT !.net = linked],
                             [ev |-> "rebind", site |-> "receive", name |-> name,
                              target |-> cmd.target,
                              handle |-> a.tree, ty |-> a.ty, right |-> Wire(v, 1),
                              before |-> c2.net, after |-> linked, vars |-> c5.vars])
            IN  IF c1.err # "" THEN c1
                ELSE IF c2.err # "" THEN c2
                ELSE IF a.ty.t # "Send"
                THEN panic(c2, "internal error: entered unreachable code")
                ELSE IF c4.err # "" THEN c4
                ELSE IF c5.err # "" THEN c5
                ELSE Call("compile_process", <<c6, cmd.process>>)
      [] cmd.c = "Match" ->
            LET c1 == Call("instantiate_variable", <<c, name>>)
                old_tree == c1.ret
                taken == c1.vars
                c2 == Logged([c1 EXCEPT !.vars = <<>>],
                             [ev |-> "take", binds |-> [i \in 1..Len(taken) |-> taken[i].bind],
                              kinds |-> [i \in 1..Len(taken) |-> taken[i].kind],
                              names |-> [i \in 1..Len(taken) |-> taken[i].name],
                              tys |-> [i \in 1..Len(taken) |-> taken[i].ty]])
                col == Call("match_collect", <<c2, name, taken, 1>>)
                context_in == multiplex_trees([i \in 1..Len(col.m) |-> col.m[i].tree])
                c3 == Logged(col.c, [ev |-> "context", names |-> cmd.names,
                                     required |-> IF ty.t = "Either" THEN ty.br ELSE <<>>])
                br == Call("match_branches", <<c3, name, cmd, ty.br, col.m, 1>>)
                t == branch_chain(br.branches, 1)
            IN  IF c1.err # "" THEN c1
                ELSE IF col.c.err # "" THEN col.c
                ELSE IF ty.t # "Either"
                THEN panic(col.c, "internal error: entered unreachable code")
                ELSE IF br.c.err # "" THEN br.c
                ELSE Logged([br.c EXCEPT !.net = link(@, old_tree.tree, t)],
                            [ev |-> "matched", handle |-> old_tree.tree, tree |-> t])
      [] cmd.c = "Choose" ->
            \* the source names `tree`, `building_tree` and `v0` without binding
            \* them; they are taken as section 4.6 of the specification has them:
            \* a fresh wire (v0, v1) typed as the branch, tree = v1 and
            \* building_tree the choice_instance
            LET c1 == Call("instantiate_variable", <<c, name>>)
                c2 == Call("cast", <<c1, TypedTree(c1.ret.tree, c1.ret.ty), ty>>)
                a == c2.ret
                branches == a.ty.br
                b == get_index_of(branches, cmd.chosen)
                branch_index == sorted_index_of(branches, cmd.chosen)
                v == c2.net.wires
                w == v + 1
                building_tree == choice_instance(w, Wire(v, 1), branch_index, Len(branches))
                c3 == Logged([c2 EXCEPT !.net = create_wire(create_wire(@))],
                             [ev |-> "instance", site |-> "choose",
                              branch |-> cmd.chosen, branches |-> branches,
                              index |-> branch_index, out_of |-> Len(branches),
                              tree |-> building_tree, other |-> Wire(v, 0)])
                c4 == [c3 EXCEPT !.net = link(@, building_tree, a.tree)]
                c5 == bind_variable(c4, name, Wire(v, 0), branches[b].ty, "choose")
            IN  IF c1.err # "" THEN c1
                ELSE IF c2.err # "" THEN c2
                ELSE IF a.ty.t # "Choice" \/ b = 0
                THEN panic(c2, "internal error: entered unreachable code")
                ELSE IF building_tree.k = "panic" THEN panic(c2, building_tree.msg)
                ELSE IF c5.err # "" THEN c5
                ELSE Call("compile_process", <<c5, cmd.process>>)
      [] cmd.c = "Break" ->
            LET c1 == Call("instantiate_variable", <<c, name>>) IN
            IF c1.err # "" THEN c1
            ELSE [c1 EXCEPT !.net = link(@, c1.ret.tree, TreeE)]
      [] cmd.c = "Continue" ->
            LET c1 == Call("instantiate_variable", <<c, name>>) IN
            IF c1.err # "" THEN c1
            ELSE Call("compile_process", <<[c1 EXCEPT !.net = link(@, c1.ret.tree, TreeE)],
                                 cmd.process>>)
      [] OTHER -> panic(c, "internal error: entered unreachable code")

\* every call between the functions of the compiler goes through Call
Call(fn, a) ==
    CASE fn = "compile_global" -> compile_global(a[1], a[2])
      [] fn = "with_captures" -> with_captures(a[1], a[2], a[3])
      [] fn = "capture_all" -> capture_all(a[1], a[2], a[3], a[4])
      [] fn = "run_closure" -> run_closure(a[1], a[2])
      [] fn = "use_variable" -> use_variable(a[1], a[2])
      [] fn = "instantiate_variable" -> instantiate_variable(a[1], a[2])
      [] fn = "cast_choices" -> cast_choices(a[1], a[2], a[3], a[4], a[5])
      [] fn = "cast" -> cast(a[1], a[2], a[3])
      [] fn = "compile_expression" -> compile_expression(a[1], a[2])
      [] fn = "compile_process" -> compile_process(a[1], a[2])
      [] fn = "match_collect" -> match_collect(a[1], a[2], a[3], a[4])
      [] fn = "match_branches" -> match_branches(a[1], a[2], a[3], a[4], a[5], a[6])
      [] fn = "compile_command" -> compile_command(a[1], a[2], a[3], a[4])

(***************************************************************************)
(* compile_file, one definition per step.                                  *)
(***************************************************************************)
\* the sequences over S of length at most n
SeqsUpTo(S, n) == UNION {[1..k -> S] : k \in 0..n}

DefNames == <<"f", "g", "h", "k", "m">>

Globals == {DefNames[i] : i \in 1..MaxDefs}

\* chan b { b! }
UnitFork(name, typ) == Fork(<<>>, name, typ, Do(name, typ, CmdBreak))

Bodies ==
    {UnitFork("a", TBreak), UnitFork("a", TContinue)}
    \cup {Fork(<<>>, "a", TBreak,
               Let("x", UnitFork("b", TContinue), Do("x", TBreak, CmdBreak))),
          Fork(<<>>, "a", TBreak,
               Let("x", UnitFork("b", TContinue), Do("a", TBreak, CmdBreak))),
          Fork(<<>>, "a", TBreak,
               Let("x", UnitFork("b", TContinue),
                   Let("x", UnitFork("b", TContinue),
                       Do("a", TBreak, CmdLink(Reference("x", TBreak))))))}
    \cup {Reference(g, TBreak) : g \in Globals}
    \cup {Fork(<<g>>, "a", TBreak, Do("a", TBreak, CmdLink(Reference(g, TBreak)))) :
             g \in Globals}

\* the program that defines the first names of DefNames by the given bodies
ProgramOf(bodies) ==
    [definitions |-> [i \in 1..Len(bodies) |-> [name |-> DefNames[i], expr |-> bodies[i]]]]

NoCompiled == [done |-> FALSE]

\* no parser is running
NoParsing == [input |-> <<>>]

Init ==
    /\ \E n \in 0..MaxDefs : \E bodies \in [1..n -> Bodies] : program = ProgramOf(bodies)
    /\ compiler = NewCompiler(program)
    /\ next_key = 1
    /\ compiled = NoCompiled
    /\ parsing = NoParsing

\* one turn of the loop of compile_file
CompileNext ==
    /\ compiler.err = ""
    /\ next_key <= Len(program.definitions)
    /\ compiler' = Call("compile_global", <<compiler, program.definitions[next_key].name>>)
    /\ next_key' = next_key + 1
    /\ UNCHANGED <<program, compiled, parsing>>

\* the IcCompiled that compile_file returns
Finish ==
    /\ compiler.err = ""
    /\ next_key > Len(program.definitions)
    /\ ~compiled.done
    /\ compiled' = [done |-> TRUE,
                    id_to_package |-> compiler.id_to_package,
                    name_to_id |-> compiler.global_name_to_id]
    /\ UNCHANGED <<program, compiler, next_key, parsing>>

Next == CompileNext \/ Finish

Spec == Init /\ [][Next]_vars

(***************************************************************************)
(* compile_file on programs of two definitions, one of them a library      *)
(* definition and the other a body that works on its scope: it refers to   *)
(* the library definition g up to MaxUses times, binds over it, forks with *)
(* and without captures, receives and matches.                             *)
(***************************************************************************)
MaxUses == 3

\* let x = g  x?  (k times)  a!
RECURSIVE UseTimes(_, _)
UseTimes(g, k) ==
    IF k = 0 THEN Do("a", TBreak, CmdBreak)
    ELSE Let("x", Reference(g, TBreak), Do("x", TBreak, CmdContinue(UseTimes(g, k - 1))))

\* chan a { let x = g  x?  ..  a! }
Uses(g, k) == Fork(<<>>, "a", TBreak, UseTimes(g, k))

\* chan a { let x = g  x?  let g = chan b { b! }  g?  a! }
LetOverGlobal(g) ==
    Fork(<<>>, "a", TBreak,
         Let("x", Reference(g, TBreak),
             Do("x", TBreak, CmdContinue(
                 Let(g, UnitFork("b", TContinue),
                     Do(g, TBreak, CmdContinue(Do("a", TBreak, CmdBreak))))))))

\* chan a { let x = chan b { b! }  let y = chan[captures] b { b <> x }  y?  a! }
ForkUsing(captures) ==
    Fork(<<>>, "a", TBreak,
         Let("x", UnitFork("b", TContinue),
             Let("y", Fork(captures, "b", TBreak,
                           Do("b", TBreak, CmdLink(Reference("x", TBreak)))),
                 Do("y", TBreak, CmdContinue(Do("a", TBreak, CmdBreak))))))

\* chan a { let x = chan b { b! }  let y = chan[x] x { x! }  .. }
ForkOverCapture ==
    Fork(<<>>, "a", TBreak,
         Let("x", UnitFork("b", TContinue),
             Let("y", Fork(<<"x">>, "x", TBreak, Do("x", TBreak, CmdBreak)),
                 Do("y", TBreak, CmdContinue(Do("a", TBreak, CmdBreak))))))

\* chan a { let x = chan b { b! }  a[target]  target?  a! }
ReceiveInto(target) ==
    Fork(<<>>, "a", TSend(TBreak, TBreak),
         Let("x", UnitFork("b", TContinue),
             Do("a", TSend(TBreak, TBreak),
                CmdReceive(target,
                    Do(target, TBreak, CmdContinue(
                        Do("x", TBreak, CmdContinue(Do("a", TBreak, CmdBreak)))))))))

EitherUnits == TEither(<<[name |-> "l", ty |-> TBreak], [name |-> "r", ty |-> TBreak]>>)

\* chan a { [let x = chan b { b! }]  a { l => { a! }  r => { a! } } }
MatchUnits(live) ==
    LET m == Do("a", EitherUnits,
                CmdMatch(<<"l", "r">>, <<Do("a", TBreak, CmdBreak), Do("a", TBreak, CmdBreak)>>))
    IN  Fork(<<>>, "a", EitherUnits,
             IF live THEN Let("x", UnitFork("b", TContinue), m) ELSE m)

\* chan a { let x = chan b { b! }  let y = g  y?  x?  a! }
LetGlobalAfter(g) ==
    Fork(<<>>, "a", TBreak,
         Let("x", UnitFork("b", TContinue),
             Let("y", Reference(g, TBreak),
                 Do("y", TBreak, CmdContinue(
                     Do("x", TBreak, CmdContinue(Do("a", TBreak, CmdBreak))))))))

\* chan g { let x = chan b { b! }  g { } }: the subject has the name of a definition
MatchNamedAsGlobal(g) ==
    Fork(<<>>, g, TEither(<<>>),
         Let("x", UnitFork("b", TContinue),
             Do(g, TEither(<<>>), CmdMatch(<<>>, <<>>))))

\* the last one, `def g = x`, refers to a variable of the body that refers to g
ScopeLibrary == {UnitFork("a", TContinue), UnitFork("a", TBreak), Reference("x", TBreak)}

ScopeBodies(g) ==
    {Uses(g, k) : k \in 1..MaxUses}
    \cup {LetOverGlobal(g), LetGlobalAfter(g), MatchNamedAsGlobal(g), ForkOverCapture}
    \cup {ForkUsing(captures) : captures \in {<<>>, <<"x">>}}
    \cup {ReceiveInto(target) : target \in {"x", "y"}}
    \cup {MatchUnits(live) : live \in BOOLEAN}

\* the body is definition i and refers to the other definition
InitScope ==
    /\ \E lib \in ScopeLibrary, i \in 1..2 : \E body \in ScopeBodies(DefNames[3 - i]) :
          program = ProgramOf(IF i = 1 THEN <<body, lib>> ELSE <<lib, body>>)
    /\ compiler = NewCompiler(program)
    /\ next_key = 1
    /\ compiled = NoCompiled
    /\ parsing = NoParsing

SpecScope == InitScope /\ [][Next]_vars

(***************************************************************************)
(* compile_file on programs that cast: `def f = chan a { a! }` of a type   *)
(* `from` with `def g = f` annotated with a type `to`, and                  *)
(* `def f = chan c { c.branch ! }` for a Choice type of c.                  *)
(***************************************************************************)
MaxTypeDepth == 2
MaxBranches == 2

BranchNames == {"a", "b", "c"}

\* the Choice types of up to MaxBranches branches named by BranchNames, in
\* every order of declaration
ChoiceTypes ==
    {TChoice([i \in 1..Len(names) |-> [name |-> names[i], ty |-> TBreak]]) :
        names \in {n \in SeqsUpTo(BranchNames, MaxBranches) :
                      \A i, j \in 1..Len(n) : n[i] = n[j] => i = j}}

\* the type t at the end of a path through first and second components of
\* Send and Receive types, the other components being Break
Components == {"Send.1", "Send.2", "Receive.1", "Receive.2"}

RECURSIVE TypeAt(_, _)
TypeAt(path, t) ==
    IF path = <<>> THEN t
    ELSE LET inner == TypeAt(Tail(path), t) IN
         CASE Head(path) = "Send.1" -> TSend(inner, TBreak)
           [] Head(path) = "Send.2" -> TSend(TBreak, inner)
           [] Head(path) = "Receive.1" -> TReceive(inner, TBreak)
           [] Head(path) = "Receive.2" -> TReceive(TBreak, inner)

TypePaths == SeqsUpTo(Components, MaxTypeDepth)

\* the path p, and p with another innermost component
PathsLike(p) ==
    IF p = <<>> THEN {p}
    ELSE {[p EXCEPT ![Len(p)] = x] : x \in Components}

TypeAtoms ==
    {TBreak, TContinue, TEither(<<>>), TChoice(<<[name |-> "a", ty |-> TBreak]>>)}

CastProgram(from, to) ==
    ProgramOf(<<UnitFork("a", dual(from)), Reference("f", to)>>)

ChooseProgram(ty, chosen) ==
    ProgramOf(<<Fork(<<>>, "c", ty, Do("c", ty, CmdChoose(chosen, Do("c", TBreak, CmdBreak))))>>)

InitCast ==
    /\ \/ \E p \in TypePaths : \E q \in PathsLike(p) : \E x \in TypeAtoms, y \in TypeAtoms :
             program = CastProgram(TypeAt(p, x), TypeAt(q, y))
       \/ \E from \in ChoiceTypes, to \in ChoiceTypes : program = CastProgram(from, to)
       \/ \E ty \in ChoiceTypes, chosen \in BranchNames : program = ChooseProgram(ty, chosen)
    /\ compiler = NewCompiler(program)
    /\ next_key = 1
    /\ compiled = NoCompiled
    /\ parsing = NoParsing

SpecCast == InitCast /\ [][Next]_vars

(***************************************************************************)
(* compile_file on one definition `def f = chan a { .. }` whose body is a  *)
(* single command on a: a link, a send, a receive or a match, the match    *)
(* over every declaration and every listing of up to MaxBranches branches. *)
(***************************************************************************)
LowerTypes == {TBreak, TContinue, TSend(TBreak, TBreak)}

\* chan a { a <> a }
IdFork(typ) == Fork(<<>>, "a", typ, Do("a", typ, CmdLink(Reference("a", typ))))

\* chan a { let x = chan b { b! }  a <> x }
LinkFork(typ) ==
    Fork(<<>>, "a", typ,
         Let("x", UnitFork("b", TContinue), Do("a", typ, CmdLink(Reference("x", TBreak)))))

\* chan a { a(chan b { b! })  a! }, a : Receive(A, B) as Send requires it
SendFork(A, B) ==
    Fork(<<>>, "a", TReceive(A, B),
         Do("a", TReceive(A, B), CmdSend(UnitFork("b", dual(A)), Do("a", B, CmdBreak))))

\* chan a { a[target]  x?  a! }, a : Send(A, B) as Receive requires it
ReceiveFork(A, B, target) ==
    Fork(<<>>, "a", TSend(A, B),
         Do("a", TSend(A, B),
            CmdReceive(target, Do("x", A, CmdContinue(Do("a", B, CmdBreak))))))

\* the type each branch name stands for in the Either types of the family
BranchType(n) ==
    CASE n = "a" -> TBreak
      [] n = "b" -> TContinue
      [] OTHER -> TSend(TBreak, TBreak)

\* the sequences of up to MaxBranches different branch names
BranchLists ==
    {n \in SeqsUpTo(BranchNames, MaxBranches) : \A i, j \in 1..Len(n) : n[i] = n[j] => i = j}

EitherOf(names) == TEither([i \in 1..Len(names) |-> [name |-> names[i], ty |-> BranchType(names[i])]])

\* chan a { [let x = chan b { b! }]  a { n1 => { [x?] a! } .. } }: a is declared
\* with the branches `declared`, the command lists the branches `listed`
MatchFork(declared, listed, live) ==
    LET branch(n) == IF live THEN Do("x", TBreak, CmdContinue(Do("a", BranchType(n), CmdBreak)))
                     ELSE Do("a", BranchType(n), CmdBreak)
        m == Do("a", EitherOf(declared),
                CmdMatch(listed, [i \in 1..Len(listed) |-> branch(listed[i])]))
    IN  Fork(<<>>, "a", EitherOf(declared),
             IF live THEN Let("x", UnitFork("b", TContinue), m) ELSE m)

InitLower ==
    /\ \/ \E typ \in LowerTypes : program \in {ProgramOf(<<IdFork(typ)>>), ProgramOf(<<LinkFork(typ)>>)}
       \/ \E A \in LowerTypes, B \in LowerTypes :
             \/ program = ProgramOf(<<SendFork(A, B)>>)
             \/ \E target \in {"x", "a"} : program = ProgramOf(<<ReceiveFork(A, B, target)>>)
       \/ \E declared \in BranchLists, listed \in BranchLists, live \in BOOLEAN :
             program = ProgramOf(<<MatchFork(declared, listed, live)>>)
    /\ compiler = NewCompiler(program)
    /\ next_key = 1
    /\ compiled = NoCompiled
    /\ parsing = NoParsing

SpecLower == InitLower /\ [][Next]_vars

(***************************************************************************)
(* The tree builders on their own: a compiler whose net has created up to  *)
(* MaxWires wires is asked once for a choice_instance or for the           *)
(* multiplex_trees of up to MaxTrees trees.                                *)
(***************************************************************************)
MaxWires == 2
MaxWidth == 3
MaxTrees == 4

\* the trees at hand: E, a package and an end of each wire created so far
TreesAtHand == {TreeE, Package(0)} \cup {Wire(i, 1) : i \in 0..(compiler.net.wires - 1)}

InitTrees ==
    /\ program = ProgramOf(<<>>)
    /\ compiler = NewCompiler(program)
    /\ next_key = 1
    /\ compiled = NoCompiled
    /\ parsing = NoParsing

\* self.net.create_wire()
CreateWire ==
    /\ compiler.log = <<>>
    /\ compiler.net.wires < MaxWires
    /\ compiler' = [compiler EXCEPT !.net = create_wire(@)]
    /\ UNCHANGED <<program, next_key, compiled, parsing>>

\* self.choice_instance(tree, index, out_of)
ChoiceInstance ==
    /\ compiler.log = <<>>
    /\ \E tree \in TreesAtHand, index \in 0..MaxWidth, out_of \in 0..MaxWidth :
          LET w == compiler.net.wires
              c1 == Logged([compiler EXCEPT !.net = create_wire(@)],
                           [ev |-> "choice_instance", tree |-> tree, index |-> index,
                            out_of |-> out_of, before |-> compiler.net])
              r == choice_instance(w, tree, index, out_of)
          IN  compiler' = IF r.k = "panic" THEN panic(c1, r.msg)
                          ELSE [c1 EXCEPT !.ret = TypedTree(r, TBreak)]
    /\ UNCHANGED <<program, next_key, compiled, parsing>>

\* multiplex_trees(trees)
MultiplexTrees ==
    /\ compiler.log = <<>>
    /\ \E trees \in SeqsUpTo(TreesAtHand, MaxTrees) :
          compiler' = [Logged(compiler, [ev |-> "multiplex_trees", trees |-> trees])
                          EXCEPT !.ret = TypedTree(multiplex_trees(trees), TBreak)]
    /\ UNCHANGED <<program, next_key, compiled, parsing>>

SpecTrees == InitTrees /\ [][CreateWire \/ ChoiceInstance \/ MultiplexTrees]_vars

(***************************************************************************)
(* The parser (src/par/parser.rs).  A parser of the source is a value      *)
(* built from the combinators below, and Parse runs it on a token slice    *)
(* from a position; call(f) stands for a call of the parser function f.     *)
(* A token is [kind, text], with its byte range `span` where a parser      *)
(* reads it; a string literal used as a parser matches the token with that *)
(* text (the lexer is not part of the sources at hand).                    *)
(***************************************************************************)
literal(text) == [op |-> "lit", text |-> text]
token_kind(kind) == [op |-> "kind", kind |-> kind]
empty == [op |-> "empty"]
fail == [op |-> "fail"]
seq(ps) == [op |-> "seq", ps |-> ps]
alt(ps) == [op |-> "alt", ps |-> ps]
opt(q) == [op |-> "opt", p |-> q]
not(q) == [op |-> "not", p |-> q]
cut_err(q) == [op |-> "cut_err", p |-> q]
context(label, q) == [op |-> "context", label |-> label, p |-> q]
map(fn, q) == [op |-> "map", fn |-> fn, p |-> q]
nth(n, q) == [op |-> "nth", n |-> n, p |-> q]
call(fname) == [op |-> "call", fn |-> fname]
repeat(q) == [op |-> "repeat0", p |-> q]
separated(q, sep) == [op |-> "separated1", p |-> q, sep |-> sep]
preceded(a, q) == nth(2, seq(<<a, q>>))
terminated(q, b) == nth(1, seq(<<q, b>>))
delimited(a, q, b) == nth(2, seq(<<a, q, b>>))

\* fn commit_after: `ignored`, then cut_err(parser)
commit_after(ignored, parser) == nth(2, seq(<<ignored, cut_err(parser)>>))

\* fn with_loc: peek(any) for the location, then the parser
with_loc(parser) == [op |-> "with_loc", p |-> parser]

\* fn with_span: the parser, and the byte range from the first token it is
\* given to a token found after it has run
with_span(parser) == [op |-> "with_span", p |-> parser]

\* results: Ok, ErrMode::Backtrack and ErrMode::Cut, the last two with the
\* contexts the error collected on its way out
POk(pos, val) == [st |-> "ok", pos |-> pos, val |-> val, ctx |-> <<>>]
PBacktrack(pos) == [st |-> "backtrack", pos |-> pos, val |-> <<>>, ctx |-> <<>>]
PCut(r) == [r EXCEPT !.st = "cut"]

None == [some |-> FALSE]
Some(v) == [some |-> TRUE, v |-> v]

\* the folds of the .map closures over the reversed argument list:
\* step(acc, item) is the body of the closure
\* the closure given to fold in the parser function fn: fold calls it with the
\* accumulator first and the item second
fold_step(fn, acc, item) ==
    CASE fn = "typ_send" -> TSend(acc, item)
      [] fn = "typ_receive" -> TReceive(acc, item)
      [] fn = "typ_branch_receive" -> TReceive(item, acc)
      [] fn = "typ_send_type" -> [t |-> "SendType", name |-> item, body |-> acc]
      [] fn \in {"typ_recv_type", "typ_branch_recv_type"} ->
            [t |-> "ReceiveType", name |-> item, body |-> acc]
      [] fn \in {"pattern_receive", "cons_receive", "cons_branch_receive",
                 "apply_branch_receive", "cmd_receive", "cmd_branch_receive"} ->
            [n |-> "Receive", a |-> item, b |-> acc]
      [] fn \in {"pattern_receive_type", "cons_recv_type", "cons_branch_recv_type",
                 "apply_branch_recv_type", "cmd_recv_type", "cmd_branch_recv_type"} ->
            [n |-> "ReceiveType", a |-> item, b |-> acc]
      [] fn \in {"cons_send", "apply_send", "cmd_send"} ->
            [n |-> "Send", a |-> item, b |-> acc]
      [] fn \in {"cons_send_type", "apply_send_type", "cmd_send_type"} ->
            [n |-> "SendType", a |-> item, b |-> acc]

RECURSIVE fold_rev(_, _, _, _)
fold_rev(fn, items, i, acc) ==
    IF i = 0 THEN acc ELSE fold_rev(fn, items, i - 1, fold_step(fn, acc, items[i]))

\* the folds into an IndexMap of branches
RECURSIVE fold_branches(_, _, _)
fold_branches(items, i, branches) ==
    IF i > Len(items) THEN branches
    ELSE fold_branches(items, i + 1,
                       insert(branches, [name |-> items[i][2], ty |-> items[i][3]]))

\* the fold of `program` over its items
RECURSIVE fold_program(_, _, _)
fold_program(items, i, acc) ==
    IF i > Len(items) THEN acc
    ELSE LET item == items[i] IN
         fold_program(items, i + 1,
            CASE item.item = "A" ->
                    [acc EXCEPT !.type_defs =
                        insert(@, [name |-> item.v.name, params |-> item.v.params,
                                   typ |-> item.v.typ])]
              [] item.item = "B" ->
                    [acc EXCEPT !.declarations =
                        insert(@, [name |-> item.v.name, typ |-> Some(item.v.typ)])]
              [] item.item = "C" ->
                    [acc EXCEPT !.declarations =
                                    insert(@, [name |-> item.v.name, typ |-> item.v.typ]),
                                !.definitions =
                                    insert(@, [name |-> item.v.name, expr |-> item.v.expr])])

ProgramDefault == [type_defs |-> <<>>, declarations |-> <<>>, definitions |-> <<>>]

\* the .map closures of the parsers
MapFn(fn, v) ==
    CASE fn \in {"A", "B", "C"} -> [item |-> fn, v |-> v]
      [] fn = "program" -> fold_program(v, 1, ProgramDefault)
      [] fn = "type_def" -> [name |-> v[1], params |-> v[2], typ |-> v[4]]
      [] fn = "declaration" -> [name |-> v[1], typ |-> v[3]]
      [] fn = "definition" -> [name |-> v[1], typ |-> v[2], expr |-> v[4]]
      [] fn = "typ_name" -> [t |-> "Name", name |-> v[1][1], args |-> v[1][2]]
      [] fn = "typ_chan" -> TChan(v[1])
      [] fn = "typ_send" -> fold_rev(fn, v[1][1], Len(v[1][1]), v[1][2])
      [] fn = "typ_receive" -> fold_rev(fn, v[1][1], Len(v[1][1]), v[1][2])
      [] fn = "typ_either" -> TEither(fold_branches(v[1][2], 1, <<>>))
      [] fn = "typ_choice" -> TChoice(fold_branches(v[1], 1, <<>>))
      [] fn = "typ_break" -> TBreak
      [] fn = "typ_continue" -> TContinue
      [] fn = "typ_recursive" -> [t |-> "Recursive", label |-> v[1][1], body |-> v[1][2]]
      [] fn = "typ_iterative" -> [t |-> "Iterative", label |-> v[1][1], body |-> v[1][2]]
      [] fn = "typ_self" -> [t |-> "Self", label |-> v[1]]
      [] fn = "typ_send_type" ->
            fold_rev(fn, v[1][1], Len(v[1][1]), v[1][3])
      [] fn = "typ_recv_type" ->
            fold_rev(fn, v[1][1], Len(v[1][1]), v[1][3])
      [] fn = "unwrap_or_default" -> IF v.some THEN v.v ELSE <<>>
      [] fn = "typ_branch_receive" ->
            fold_rev(fn, v[1][1], Len(v[1][1]), v[1][3])
      [] fn = "typ_branch_recv_type" ->
            fold_rev(fn, v[1][1], Len(v[1][1]), v[1][3])
      [] fn \in {"pattern_receive", "cons_receive", "cons_branch_receive",
                 "apply_branch_receive", "cmd_receive", "cmd_branch_receive"} ->
            fold_rev(fn, v[1][1], Len(v[1][1]), v[1][3])
      [] fn \in {"pattern_receive_type", "cons_recv_type", "cons_branch_recv_type",
                 "apply_branch_recv_type", "cmd_recv_type", "cmd_branch_recv_type"} ->
            fold_rev(fn, v[1][1], Len(v[1][1]), v[1][3])
      [] fn \in {"cons_send", "apply_send", "cmd_send"} ->
            fold_rev(fn, v[1][1], Len(v[1][1]), v[1][3])
      [] fn \in {"cons_send_type", "apply_send_type", "cmd_send_type"} ->
            fold_rev(fn, v[1][1], Len(v[1][1]), v[1][3])
      [] OTHER -> [n |-> fn, v |-> v]

(***************************************************************************)
(* The grammar: the parser functions of parser.rs by name, each the parser *)
(* its body builds.                                                        *)
(***************************************************************************)
\* keyword with `self` left out of the alternatives
keyword_without_self ==
    context("keyword",
        alt(<<literal("type"), literal("dec"), literal("def"), literal("chan"),
              literal("let"), literal("do"), literal("in"), literal("pass"),
              literal("begin"), literal("loop"), literal("telltypes"), literal("either"),
              literal("recursive"), literal("iterative")>>))

\* fn keyword
keyword ==
    context("keyword",
        alt(<<literal("type"), literal("dec"), literal("def"), literal("chan"),
              literal("let"), literal("do"), literal("in"), literal("pass"),
              literal("begin"), literal("loop"), literal("telltypes"), literal("either"),
              literal("recursive"), literal("iterative"), literal("self")>>))

\* list without the optional comma at the end
list_without_trailing(item) == separated(item, literal(","))

\* fn list
list(item) == terminated(separated(item, literal(",")), opt(literal(",")))

\* name, program and its items (parser.rs 112-196)
ItemParsers ==
    [ name |->
          context("name", context("non-keyword", context("alphanumeric", context("_",
              preceded(not(call("keyword")), token_kind("Ident")))))),
      program |->
          map("program",
              repeat(alt(<<map("A", call("type_def")),
                           map("B", call("declaration")),
                           map("C", call("definition")),
                           cut_err(context("definition", context("declaration", context("type",
                               context("item", fail)))))>>))),
      type_def |->
          map("type_def",
              commit_after(literal("type"),
                  seq(<<call("name"), call("type_params"), literal("="), call("typ")>>))),
      declaration |->
          context("declaration",
              map("declaration",
                  commit_after(literal("dec"), seq(<<call("name"), literal(":"), call("typ")>>)))),
      definition |->
          context("definition",
              commit_after(literal("def"),
                  map("definition",
                      seq(<<call("name"), call("annotation"), literal("="), call("expression")>>)))) ]

\* the types (parser.rs 207-422)
TypeParsers ==
    [ type_def |->
          map("type_def",
              commit_after(literal("type"),
                  seq(<<call("name"), call("type_params"), literal("="), call("typ")>>))),
      typ |->
          context("type",
              alt(<<call("typ_name"), call("typ_chan"), call("typ_either"), call("typ_choice"),
                    call("typ_break"), call("typ_continue"), call("typ_recursive"),
                    call("typ_iterative"), call("typ_self"), call("typ_send_type"),
                    call("typ_send"), call("typ_recv_type"), call("typ_receive")>>)),
      typ_name |->
           map("typ_name", with_loc(seq(<<call("name"), call("type_args")>>))),
      typ_chan |->
          map("typ_chan", with_loc(commit_after(literal("chan"), context("chan type", call("typ"))))),
      typ_send |->
          map("typ_send",
              with_loc(commit_after(literal("("),
                  seq(<<terminated(list(call("typ")), literal(")")), call("typ")>>)))),
      typ_receive |->
          map("typ_receive",
              with_loc(commit_after(literal("["),
                  seq(<<terminated(list(call("typ")), literal("]")), call("typ")>>)))),
      typ_either |->
          map("typ_either",
              with_loc(commit_after(literal("either"),
                  seq(<<literal("{"),
                        repeat(seq(<<literal("."), call("name"), call("typ"), opt(literal(","))>>)),
                        literal("}")>>)))),
      typ_choice |->
          map("typ_choice",
              with_loc(commit_after(literal("{"),
                  terminated(
                      repeat(seq(<<literal("."), call("name"), call("typ_branch"),
                                   opt(literal(","))>>)),
                      literal("}"))))),
      typ_break |->
           map("typ_break", with_loc(literal("!"))),
      typ_continue |->
           map("typ_continue", with_loc(literal("?"))),
      typ_recursive |->
          map("typ_recursive",
              with_loc(commit_after(literal("recursive"), seq(<<call("loop_label"), call("typ")>>)))),
      typ_iterative |->
          map("typ_iterative",
              with_loc(commit_after(literal("iterative"),
                  context("iterative type body", seq(<<call("loop_label"), call("typ")>>))))),
      typ_self |->
          map("typ_self",
              with_loc(commit_after(literal("self"),
                  context("self type loop label", call("loop_label"))))),
      typ_send_type |->
          map("typ_send_type",
              with_loc(commit_after(seq(<<literal("("), literal("type")>>),
                  seq(<<context("list of type names to send", list(call("name"))),
                        literal(")"), call("typ")>>)))),
      typ_recv_type |->
          map("typ_recv_type",
              with_loc(commit_after(seq(<<literal("["), literal("type")>>),
                  seq(<<context("list of type names to receive", list(call("name"))),
                        literal("]"), call("typ")>>)))),
      type_params |->
          map("unwrap_or_default", opt(delimited(literal("<"), list(call("name")), literal(">")))),
      type_args |->
          map("unwrap_or_default", opt(delimited(literal("<"), list(call("typ")), literal(">")))),
      typ_branch |->
          alt(<<call("typ_branch_then"), call("typ_branch_recv_type"), call("typ_branch_receive")>>),
      typ_branch_then |->
           commit_after(literal("=>"), call("typ")),
      typ_branch_receive |->
          map("typ_branch_receive",
              with_loc(commit_after(literal("("),
                  seq(<<list(call("typ")), literal(")"), call("typ_branch")>>)))),
      typ_branch_recv_type |->
          map("typ_branch_recv_type",
              with_loc(preceded(seq(<<literal("("), literal("type")>>),
                  cut_err(seq(<<list(call("name")), literal(")"), call("typ_branch")>>))))),
      annotation |->
           opt(commit_after(literal(":"), call("typ"))) ]

\* the patterns (parser.rs 425-467)
PatternParsers ==
    [ pattern |->
          alt(<<call("pattern_name"), call("pattern_receive_type"), call("pattern_receive"),
                call("pattern_continue")>>),
      pattern_name |->
           map("pattern_name", with_loc(seq(<<call("name"), call("annotation")>>))),
      pattern_receive |->
          map("pattern_receive",
              with_loc(commit_after(literal("("),
                  seq(<<list(call("pattern")), literal(")"), call("pattern")>>)))),
      pattern_continue |->
           map("pattern_continue", with_loc(literal("!"))),
      pattern_receive_type |->
          map("pattern_receive_type",
              with_loc(commit_after(seq(<<literal("("), literal("type")>>),
                  seq(<<list(call("name")), literal(")"), call("pattern")>>)))) ]

\* the expressions (parser.rs 469-506)
ExpressionParsers ==
    [ expression |->
          alt(<<call("expr_let"), call("expr_do"), call("expr_fork"), call("application"),
                map("Construction", with_loc(call("construction"))),
                delimited(literal("{"), call("expression"), literal("}"))>>),
      expr_let |->
          map("expr_let",
              with_loc(commit_after(literal("let"),
                  seq(<<call("pattern"), literal("="), call("expression"), literal("in"),
                        call("expression")>>)))),
      expr_do |->
          map("expr_do",
              with_loc(commit_after(literal("do"),
                  seq(<<literal("{"), call("process"), seq(<<literal("}"), literal("in")>>),
                        call("expression")>>)))),
      expr_fork |->
          map("expr_fork",
              commit_after(literal("chan"),
                  seq(<<with_loc(call("name")), call("annotation"), literal("{"),
                        call("process"), literal("}")>>))) ]

\* the constructions (parser.rs 508-652)
ConstructionParsers ==
    [ construction |->
          alt(<<call("cons_begin"), call("cons_loop"), call("cons_then"), call("cons_choose"),
                call("cons_either"), call("cons_break"), call("cons_send_type"),
                call("cons_send"), call("cons_recv_type"), call("cons_receive")>>),
      cons_then |->
          map("cons_then",
              with_loc(alt(<<call("expr_fork"), call("expr_let"), call("expr_do"),
                             call("application"),
                             delimited(literal("{"), call("expression"), literal("}"))>>))),
      cons_send |->
          map("cons_send",
              with_loc(commit_after(literal("("),
                  seq(<<list(call("expression")), literal(")"), call("construction")>>)))),
      cons_receive |->
          map("cons_receive",
              with_loc(commit_after(literal("["),
                  seq(<<list(call("pattern")), literal("]"), call("construction")>>)))),
      cons_choose |->
          map("cons_choose",
              with_loc(commit_after(literal("."), seq(<<call("name"), call("construction")>>)))),
      cons_either |->
          map("cons_either",
              with_loc(commit_after(literal("{"),
                  seq(<<repeat(seq(<<literal("."), call("name"), call("cons_branch"),
                                     opt(literal(","))>>)),
                        literal("}")>>)))),
      cons_break |->
           map("cons_break", with_loc(literal("!"))),
      cons_begin |->
          map("cons_begin",
              with_loc(commit_after(literal("begin"),
                  seq(<<call("loop_label"), call("construction")>>)))),
      cons_loop |->
           map("cons_loop", with_loc(commit_after(literal("loop"), call("loop_label")))),
      cons_send_type |->
          map("cons_send_type",
              with_loc(commit_after(seq(<<literal("("), literal("type")>>),
                  seq(<<list(call("typ")), literal(")"), call("construction")>>)))),
      cons_recv_type |->
          map("cons_recv_type",
              with_loc(commit_after(seq(<<literal("["), literal("type")>>),
                  seq(<<list(call("name")), literal("]"), call("construction")>>)))),
      cons_branch |->
          alt(<<call("cons_branch_then"), call("cons_branch_recv_type"),
                call("cons_branch_receive")>>),
      cons_branch_then |->
          map("cons_branch_then", with_loc(commit_after(literal("=>"), call("expression")))),
      cons_branch_receive |->
          map("cons_branch_receive",
              with_loc(commit_after(literal("("),
                  seq(<<list(call("pattern")), literal(")"), call("cons_branch")>>)))),
      cons_branch_recv_type |->
          map("cons_branch_recv_type",
              with_loc(commit_after(seq(<<literal("("), literal("type")>>),
                  seq(<<list(call("name")), literal(")"), call("cons_branch")>>)))) ]

\* the applications (parser.rs 654-785)
ApplicationParsers ==
    [ application |->
          map("application",
              with_loc(seq(<<alt(<<map("Reference", with_loc(call("name"))),
                                   delimited(literal("{"), call("expression"), literal("}"))>>),
                             call("apply")>>))),
      apply |->
          alt(<<call("apply_begin"), call("apply_loop"), call("apply_choose"),
                call("apply_either"), call("apply_send_type"), call("apply_send"),
                call("apply_noop")>>),
      apply_send |->
          map("apply_send",
              with_loc(commit_after(literal("("),
                  seq(<<list(call("expression")), literal(")"), call("apply")>>)))),
      apply_choose |->
          map("apply_choose",
              with_loc(commit_after(literal("."), seq(<<call("name"), call("apply")>>)))),
      apply_either |->
          map("apply_either",
              with_loc(commit_after(literal("{"),
                  seq(<<repeat(seq(<<literal("."), call("name"), call("apply_branch"),
                                     opt(literal(","))>>)),
                        literal("}")>>)))),
      apply_begin |->
          map("apply_begin",
              with_loc(commit_after(literal("begin"), seq(<<call("loop_label"), call("apply")>>)))),
      apply_loop |->
          map("apply_loop", with_loc(commit_after(literal("loop"), call("loop_label")))),
      apply_send_type |->
          map("apply_send_type",
              with_loc(commit_after(seq(<<literal("("), literal("type")>>),
                  seq(<<list(call("typ")), literal(")"), call("apply")>>)))),
      apply_noop |->
           map("apply_noop", with_loc(empty)),
      apply_branch |->
          alt(<<call("apply_branch_then"), call("apply_branch_recv_type"),
                call("apply_branch_receive"), call("apply_branch_continue")>>),
      apply_branch_then |->
          map("apply_branch_then",
              seq(<<with_loc(call("name")), cut_err(seq(<<literal("=>"), call("expression")>>))>>)),
      apply_branch_receive |->
          map("apply_branch_receive",
              with_loc(commit_after(literal("("),
                  seq(<<list(call("pattern")), literal(")"), call("apply_branch")>>)))),
      apply_branch_continue |->
          map("apply_branch_continue",
              with_loc(commit_after(literal("!"), seq(<<literal("=>"), call("expression")>>)))),
      apply_branch_recv_type |->
          map("apply_branch_recv_type",
              with_loc(commit_after(seq(<<literal("("), literal("type")>>),
                  seq(<<list(call("name")), literal(")"), call("apply_branch")>>)))) ]

\* the processes (parser.rs 787-817)
ProcessParsers ==
    [ process |->
          context("process",
              alt(<<call("proc_let"), call("proc_pass"), call("proc_telltypes"), call("command"),
                    call("proc_noop")>>)),
      proc_let |->
          map("proc_let",
              with_loc(commit_after(literal("let"),
                  seq(<<call("pattern"), literal("="), call("expression"), call("process")>>)))),
      proc_pass |->
           map("proc_pass", with_loc(literal("pass"))),
      proc_telltypes |->
          map("proc_telltypes", with_loc(commit_after(literal("telltypes"), call("process")))),
      proc_noop |->
           map("proc_noop", with_loc(empty)) ]

\* the commands and loop_label (parser.rs 819-1000)
CommandParsers ==
    [ command |->
           map("command", seq(<<call("name"), call("cmd")>>)),
      cmd |->
          alt(<<call("cmd_link"), call("cmd_choose"), call("cmd_either"), call("cmd_break"),
                call("cmd_continue"), call("cmd_begin"), call("cmd_loop"), call("cmd_send_type"),
                call("cmd_send"), call("cmd_recv_type"), call("cmd_receive"), call("cmd_then")>>),
      cmd_then |->
           map("cmd_then", call("process")),
      cmd_link |->
           map("cmd_link", with_loc(commit_after(literal("<>"), call("expression")))),
      cmd_send |->
          map("cmd_send",
              with_loc(commit_after(literal("("),
                  seq(<<list(call("expression")), literal(")"), call("cmd")>>)))),
      cmd_receive |->
          map("cmd_receive",
              with_loc(commit_after(literal("["),
                  seq(<<list(call("pattern")), literal("]"), call("cmd")>>)))),
      cmd_choose |->
          map("cmd_choose", with_loc(commit_after(literal("."), seq(<<call("name"), call("cmd")>>)))),
      cmd_either |->
          map("cmd_either",
              with_loc(commit_after(literal("{"),
                  seq(<<call("cmd_branches"), literal("}"), opt(call("pass_process"))>>)))),
      cmd_break |->
           map("cmd_break", with_loc(literal("!"))),
      cmd_continue |->
           map("cmd_continue", with_loc(seq(<<literal("?"), call("process")>>))),
      cmd_begin |->
          map("cmd_begin",
              with_loc(commit_after(literal("begin"), seq(<<call("loop_label"), call("cmd")>>)))),
      cmd_loop |->
           map("cmd_loop", with_loc(commit_after(literal("loop"), call("loop_label")))),
      cmd_send_type |->
          map("cmd_send_type",
              with_loc(commit_after(seq(<<literal("("), literal("type")>>),
                  seq(<<list(call("typ")), literal(")"), call("cmd")>>)))),
      cmd_recv_type |->
          map("cmd_recv_type",
              with_loc(commit_after(seq(<<literal("["), literal("type")>>),
                  seq(<<list(call("name")), literal("]"), call("cmd")>>)))),
      pass_process |->
          alt(<<call("proc_let"), call("proc_pass"), call("proc_telltypes"), call("command")>>),
      cmd_branches |->
          map("cmd_branches", repeat(seq(<<literal("."), call("name"), call("cmd_branch")>>))),
      cmd_branch |->
          alt(<<call("cmd_branch_then"), call("cmd_branch_continue"), call("cmd_branch_recv_type"),
                call("cmd_branch_receive")>>),
      cmd_branch_then |->
          map("cmd_branch_then",
              commit_after(literal("=>"), seq(<<literal("{"), call("process"), literal("}")>>))),
      cmd_branch_receive |->
          map("cmd_branch_receive",
              with_loc(commit_after(literal("("),
                  seq(<<list(call("pattern")), literal(")"), call("cmd_branch")>>)))),
      cmd_branch_continue |->
          map("cmd_branch_continue",
              with_loc(commit_after(literal("!"),
                  seq(<<literal("=>"), literal("{"), call("process"), literal("}")>>)))),
      cmd_branch_recv_type |->
          map("cmd_branch_recv_type",
              with_loc(commit_after(seq(<<literal("("), literal("type")>>),
                  seq(<<list(call("name")), literal(")"), call("cmd_branch")>>)))),
      loop_label |->
           opt(preceded(literal(":"), call("name"))) ]

\* the parser function of a name
ParserFn(fname) ==
    CASE fname = "keyword" -> keyword
      [] fname \in DOMAIN ItemParsers -> ItemParsers[fname]
      [] fname \in DOMAIN TypeParsers -> TypeParsers[fname]
      [] fname \in DOMAIN PatternParsers -> PatternParsers[fname]
      [] fname \in DOMAIN ExpressionParsers -> ExpressionParsers[fname]
      [] fname \in DOMAIN ConstructionParsers -> ConstructionParsers[fname]
      [] fname \in DOMAIN ApplicationParsers -> ApplicationParsers[fname]
      [] fname \in DOMAIN ProcessParsers -> ProcessParsers[fname]
      [] fname \in DOMAIN CommandParsers -> CommandParsers[fname]

(***************************************************************************)
(* Running a parser: parse_next(g, toks, pos, cuts) is the outcome of the  *)
(* parser g on the token slice toks with `pos` tokens already consumed.    *)
(* The outcome holds the position the input is left at.  cuts is TRUE for  *)
(* the parser as written; with FALSE cut_err leaves its error alone, which *)
(* is the same grammar with full backtracking.                             *)
(***************************************************************************)
Tok(kind, text) == [kind |-> kind, text |-> text]

\* ParserError::assert of a repeat whose item consumed nothing
PAssert(pos) == [st |-> "assert", pos |-> pos, val |-> <<>>, ctx |-> <<>>]

\* the combinators that hand their input to one parser and work on its outcome
Wrappers == {"cut_err", "context", "map", "nth", "with_loc", "with_span"}

\* the parser under the wrappers of g and the wrappers, the innermost first;
\* calls of parser functions are followed
RECURSIVE unwrapped(_)
unwrapped(g) ==
    IF g.op \in Wrappers
    THEN LET u == unwrapped(g.p) IN
         [core |-> u.core, ws |-> Append(u.ws, [g EXCEPT !.p = <<>>])]
    ELSE IF g.op = "call" THEN unwrapped(ParserFn(g.fn))
    ELSE [core |-> g, ws |-> <<>>]

\* what one wrapper makes of the outcome r of its parser started at pos
on_wrapper(w, r, pos, cuts, toks) ==
    CASE w.op = "cut_err" -> IF r.st = "backtrack" /\ cuts THEN PCut(r) ELSE r
      [] w.op = "context" -> IF r.st = "ok" THEN r ELSE [r EXCEPT !.ctx = Append(@, w.label)]
      [] w.op = "map" -> IF r.st = "ok" THEN POk(r.pos, MapFn(w.fn, r.val)) ELSE r
      [] w.op = "nth" -> IF r.st = "ok" THEN POk(r.pos, r.val[w.n]) ELSE r
      [] w.op = "with_loc" -> IF r.st = "ok" THEN POk(r.pos, <<r.val, pos + 1>>) ELSE r
      [] w.op = "with_span" ->
            \* the end is taken from the token the input is now at, or from
            \* the last token of the input when none is left
            LET last == toks[Len(toks)]
                start == toks[pos + 1].span.start
                end == IF r.pos < Len(toks) THEN toks[r.pos + 1].span.end
                       ELSE last.span.end
            IN  IF r.st = "ok" THEN POk(r.pos, <<r.val, [start |-> start, end |-> end]>>)
                ELSE r

\* the wrappers ws[i..], from the inside out
RECURSIVE wrap(_, _, _, _, _, _)
wrap(ws, i, r, pos, cuts, toks) ==
    IF i > Len(ws) THEN r
    ELSE wrap(ws, i + 1, on_wrapper(ws[i], r, pos, cuts, toks), pos, cuts, toks)

RECURSIVE parse_next(_, _, _, _)

\* the parser c under the wrappers ws
run(c, ws, toks, pos, cuts) ==
    LET sub(q, at) == parse_next(q, toks, at, cuts)
        on_tuple ==
            \* a tuple of parsers (of at most five here), one after the other
            LET n == Len(c.ps)
                r1 == sub(c.ps[1], pos)
                r2 == sub(c.ps[2], r1.pos)
                r3 == sub(c.ps[3], r2.pos)
                r4 == sub(c.ps[4], r3.pos)
                r5 == sub(c.ps[5], r4.pos)
            IN  IF n = 0 THEN POk(pos, <<>>)
                ELSE IF r1.st # "ok" THEN r1
                ELSE IF n = 1 THEN POk(r1.pos, <<r1.val>>)
                ELSE IF r2.st # "ok" THEN r2
                ELSE IF n = 2 THEN POk(r2.pos, <<r1.val, r2.val>>)
                ELSE IF r3.st # "ok" THEN r3
                ELSE IF n = 3 THEN POk(r3.pos, <<r1.val, r2.val, r3.val>>)
                ELSE IF r4.st # "ok" THEN r4
                ELSE IF n = 4 THEN POk(r4.pos, <<r1.val, r2.val, r3.val, r4.val>>)
                ELSE IF r5.st # "ok" THEN r5
                ELSE POk(r5.pos, <<r1.val, r2.val, r3.val, r4.val, r5.val>>)
        on_alt ==
            \* the first alternative that does not backtrack, else the last error
            LET n == Len(c.ps)
                r(i) == sub(c.ps[i], pos)
                stop == {i \in 1..n : r(i).st # "backtrack"}
                first == CHOOSE i \in stop : \A j \in stop : i <= j
            IN  IF n = 0 THEN PBacktrack(pos)
                ELSE IF stop = {} THEN [r(n) EXCEPT !.pos = pos]
                ELSE r(first)
        on_opt ==
            LET r == sub(c.p, pos) IN
            IF r.st = "ok" THEN POk(r.pos, Some(r.val))
            ELSE IF r.st = "backtrack" THEN POk(pos, None)
            ELSE r
        on_not ==
            LET r == sub(c.p, pos) IN
            IF r.st = "ok" THEN PBacktrack(pos)
            ELSE IF r.st = "backtrack" THEN POk(pos, <<>>)
            ELSE [r EXCEPT !.pos = pos]
        inner ==
            CASE c.op = "lit" ->
                    IF pos < Len(toks) /\ toks[pos + 1].text = c.text
                    THEN POk(pos + 1, c.text) ELSE PBacktrack(pos)
              [] c.op = "kind" ->
                    IF pos < Len(toks) /\ toks[pos + 1].kind = c.kind
                    THEN POk(pos + 1, toks[pos + 1].text) ELSE PBacktrack(pos)
              [] c.op = "empty" -> POk(pos, <<>>)
              [] c.op = "fail" -> PBacktrack(pos)
              [] c.op = "seq" -> on_tuple
              [] c.op = "alt" -> on_alt
              [] c.op = "opt" -> on_opt
              [] c.op = "not" -> on_not
        \* with_loc and with_span peek at a token before anything else: at the
        \* end of the input the outermost one fails, and its own wrappers see that
        locs == {i \in 1..Len(ws) : ws[i].op \in {"with_loc", "with_span"}}
        outermost == CHOOSE i \in locs : \A j \in locs : j <= i
    IN  IF pos >= Len(toks) /\ locs # {}
        THEN wrap(ws, outermost + 1, PBacktrack(pos), pos, cuts, toks)
        ELSE wrap(ws, 1, inner, pos, cuts, toks)

parse_next(g, toks, pos, cuts) ==
    LET u == unwrapped(g) IN run(u.core, u.ws, toks, pos, cuts)

(***************************************************************************)
(* A running parser.  The calls of parse_next that are in progress are the *)
(* frames of parsing.stack, the innermost last; a frame holds its parser   *)
(* (c under the wrappers ws), the position it started at, the position the *)
(* input is at, the number of its parsers that have run and their values.  *)
(* parsing.ret is the outcome of the call that returned last.  A parser    *)
(* built only of tokens, tuples, alt, opt, not and the functions keyword    *)
(* and name runs within the step of its caller.                            *)
(***************************************************************************)
NoOutcome == [st |-> "none", pos |-> 0, val |-> <<>>, ctx |-> <<>>]

LeafFns == {"keyword", "name"}

RECURSIVE small(_, _)
small(g, h) ==
    CASE g.op \in {"lit", "kind", "empty", "fail"} -> TRUE
      [] g.op = "call" -> g.fn \in LeafFns
      [] g.op \in Wrappers -> small(g.p, h)
      [] g.op \in {"opt", "not"} -> h > 0 /\ small(g.p, h - 1)
      [] g.op \in {"seq", "alt"} ->
            h > 0 /\ \A i \in 1..Len(g.ps) : small(g.ps[i], h - 1)
      [] OTHER -> FALSE

NewFrame(c, ws, pos) ==
    [c |-> c, ws |-> ws, start |-> pos, at |-> pos, i |-> 0, acc |-> <<>>, mark |-> pos]

\* a call of the parser q at pos: its outcome, or the frame it runs in
enter(q, toks, pos, cuts) ==
    LET u == unwrapped(q)
        locs == {i \in 1..Len(u.ws) : u.ws[i].op \in {"with_loc", "with_span"}}
        outermost == CHOOSE i \in locs : \A j \in locs : j <= i
    IN  IF pos >= Len(toks) /\ locs # {}
        THEN [out |-> wrap(u.ws, outermost + 1, PBacktrack(pos), pos, cuts, toks)]
        ELSE IF small(u.core, 2)
        THEN [out |-> wrap(u.ws, 1, parse_next(u.core, toks, pos, cuts), pos, cuts, toks)]
        ELSE [frame |-> NewFrame(u.core, u.ws, pos)]

\* the parser a frame runs next, and where
child(f) ==
    CASE f.c.op \in {"seq", "alt"} -> f.c.ps[f.i + 1]
      [] f.c.op \in {"opt", "not", "repeat0"} -> f.c.p
      [] f.c.op = "separated1" -> IF f.i % 2 = 1 THEN f.c.sep ELSE f.c.p

child_pos(f) == IF f.c.op = "alt" THEN f.start ELSE f.at

Returns(out) == [done |-> TRUE, out |-> out]
Continues(f) == [done |-> FALSE, frame |-> f]

\* the frame f takes the outcome r of the parser it ran: it returns or goes on
absorb(f, r) ==
    CASE f.c.op = "seq" ->
            IF r.st # "ok" THEN Returns(r)
            ELSE IF f.i + 1 = Len(f.c.ps) THEN Returns(POk(r.pos, Append(f.acc, r.val)))
            ELSE Continues([f EXCEPT !.i = @ + 1, !.at = r.pos, !.acc = Append(@, r.val)])
      [] f.c.op = "alt" ->
            IF r.st # "backtrack" THEN Returns(r)
            ELSE IF f.i + 1 = Len(f.c.ps) THEN Returns([r EXCEPT !.pos = f.start])
            ELSE Continues([f EXCEPT !.i = @ + 1])
      [] f.c.op = "opt" ->
            IF r.st = "ok" THEN Returns(POk(r.pos, Some(r.val)))
            ELSE IF r.st = "backtrack" THEN Returns(POk(f.start, None))
            ELSE Returns(r)
      [] f.c.op = "not" ->
            IF r.st = "ok" THEN Returns(PBacktrack(f.start))
            ELSE IF r.st = "backtrack" THEN Returns(POk(f.start, <<>>))
            ELSE Returns([r EXCEPT !.pos = f.start])
      [] f.c.op = "repeat0" ->
            IF r.st = "backtrack" THEN Returns(POk(f.at, f.acc))
            ELSE IF r.st # "ok" THEN Returns(r)
            ELSE IF r.pos = f.at THEN Returns(PAssert(f.at))
            ELSE Continues([f EXCEPT !.i = @ + 1, !.at = r.pos, !.acc = Append(@, r.val)])
      [] f.c.op = "separated1" /\ f.i = 0 ->
            IF r.st # "ok" THEN Returns(r)
            ELSE Continues([f EXCEPT !.i = 1, !.at = r.pos, !.mark = r.pos,
                                     !.acc = <<r.val>>])
      [] f.c.op = "separated1" /\ f.i % 2 = 1 ->
            \* the separator
            IF r.st = "backtrack" THEN Returns(POk(f.mark, f.acc))
            ELSE IF r.st # "ok" THEN Returns(r)
            ELSE IF r.pos = f.at THEN Returns(PAssert(f.at))
            ELSE Continues([f EXCEPT !.i = @ + 1, !.at = r.pos])
      [] f.c.op = "separated1" /\ f.i > 0 /\ f.i % 2 = 0 ->
            \* the item after a separator
            IF r.st = "backtrack" THEN Returns(POk(f.mark, f.acc))
            ELSE IF r.st # "ok" THEN Returns(r)
            ELSE Continues([f EXCEPT !.i = @ + 1, !.at = r.pos, !.mark = r.pos,
                                     !.acc = Append(@, r.val)])

\* the stack and the returned outcome after the innermost frame took r
settle(stack, r, cuts, toks) ==
    LET f == stack[Len(stack)]
        a == absorb(f, r)
        below == SubSeq(stack, 1, Len(stack) - 1)
    IN  IF a.done
        THEN [stack |-> below, ret |-> wrap(f.ws, 1, a.out, f.start, cuts, toks)]
        ELSE [stack |-> Append(below, a.frame), ret |-> NoOutcome]

\* a parser `g` is given the tokens `input`; `whole` says that it is run by
\* Parser::parse, which wants the input consumed
StartParsing(toks, g, whole) ==
    [input |-> toks, entry |-> g, whole |-> whole, cuts |-> TRUE, started |-> FALSE,
     stack |-> <<>>, ret |-> NoOutcome, result |-> NoOutcome, relaxed |-> NoOutcome]

Parsing == "entry" \in DOMAIN parsing

\* the outermost call
ParseBegin ==
    /\ Parsing
    /\ ~parsing.started
    /\ LET e == enter(parsing.entry, parsing.input, 0, parsing.cuts) IN
       parsing' = IF "out" \in DOMAIN e
                  THEN [parsing EXCEPT !.started = TRUE, !.ret = e.out]
                  ELSE [parsing EXCEPT !.started = TRUE, !.stack = <<e.frame>>]
    /\ UNCHANGED <<program, compiler, next_key, compiled>>

\* the innermost frame calls its next parser
ParseCall ==
    /\ Parsing
    /\ parsing.stack # <<>>
    /\ parsing.ret.st = "none"
    /\ LET f == parsing.stack[Len(parsing.stack)]
           e == enter(child(f), parsing.input, child_pos(f), parsing.cuts)
           s == settle(parsing.stack, e.out, parsing.cuts, parsing.input)
       IN  parsing' = IF "out" \in DOMAIN e
                      THEN [parsing EXCEPT !.stack = s.stack, !.ret = s.ret]
                      ELSE [parsing EXCEPT !.stack = Append(@, e.frame)]
    /\ UNCHANGED <<program, compiler, next_key, compiled>>

\* a call has returned to the innermost frame
ParseReturn ==
    /\ Parsing
    /\ parsing.stack # <<>>
    /\ parsing.ret.st # "none"
    /\ LET s == settle(parsing.stack, parsing.ret, parsing.cuts, parsing.input) IN
       parsing' = [parsing EXCEPT !.stack = s.stack, !.ret = s.ret]
    /\ UNCHANGED <<program, compiler, next_key, compiled>>

\* the outermost call has returned; Parser::parse wants the end of the input
ParseEnd ==
    /\ Parsing
    /\ parsing.stack = <<>>
    /\ parsing.ret.st # "none"
    /\ LET r == parsing.ret
           out == IF parsing.whole /\ r.st = "ok" /\ r.pos # Len(parsing.input)
                  THEN PBacktrack(r.pos) ELSE r
       IN  parsing' = IF parsing.cuts
                      THEN [parsing EXCEPT !.ret = NoOutcome, !.result = out]
                      ELSE [parsing EXCEPT !.ret = NoOutcome, !.relaxed = out]
    /\ UNCHANGED <<program, compiler, next_key, compiled>>

\* the same parser on the same input, with cut_err leaving errors alone
ParseRelaxed ==
    /\ Parsing
    /\ parsing.cuts
    /\ parsing.result.st # "none"
    /\ parsing' = [parsing EXCEPT !.cuts = FALSE, !.started = FALSE]
    /\ UNCHANGED <<program, compiler, next_key, compiled>>

\* the compiler at rest while a parser runs
CompilerAtRest ==
    /\ program = [definitions |-> <<>>]
    /\ compiler = NewCompiler(program)
    /\ next_key = 1
    /\ compiled = NoCompiled

ParseNext == ParseBegin \/ ParseCall \/ ParseReturn \/ ParseEnd

(***************************************************************************)
(* The inputs the parsers are run on.                                      *)
(***************************************************************************)
Ident(text) == Tok("Ident", text)
Punct(text) == Tok("Punct", text)

RECURSIVE flatten(_)
flatten(parts) == IF parts = <<>> THEN <<>> ELSE Head(parts) \o flatten(Tail(parts))

RECURSIVE comma_separated(_)
comma_separated(parts) ==
    IF Len(parts) = 1 THEN parts[1]
    ELSE parts[1] \o <<Punct(",")>> \o comma_separated(Tail(parts))

\* name: an identifier, a keyword or a comma, then up to MaxFollow tokens
MaxFollow == 2
Words ==
    {"type", "dec", "def", "chan", "let", "do", "in", "pass", "begin", "loop",
     "telltypes", "either", "recursive", "iterative", "self", "x", "types", "Self"}
NameInputs ==
    {<<>>} \cup
    {<<head>> \o rest : head \in {Ident(w) : w \in Words} \cup {Punct(",")},
                        rest \in SeqsUpTo({Ident("x"), Ident("def"), Punct(",")}, MaxFollow)}

\* list: up to MaxListLen tokens of test_list and of list(name)
MaxListLen == 5
ListItems == {literal("ab"), call("name")}
ListInputs == SeqsUpTo({Ident("ab"), Ident("ba"), Ident("def"), Punct(",")}, MaxListLen)

InitItems ==
    /\ CompilerAtRest
    /\ \/ \E toks \in NameInputs : parsing = StartParsing(toks, call("name"), FALSE)
       \/ \E toks \in ListInputs, item \in ListItems :
             parsing = StartParsing(toks, list(item), TRUE)

SpecItems == InitItems /\ [][ParseNext]_vars

\* typ: `( args ) then`, `[ args ] then` and a choice with the branch
\* `.x ( args ) => then`, of one to MaxArgs arguments
MaxArgs == 3
TypArgs == {<<Ident("a")>>, <<Ident("b")>>, <<Punct("!")>>}
TypThens == {<<Punct("!")>>, <<Punct("?")>>}
ArgLists == SeqsUpTo(TypArgs, MaxArgs) \ {<<>>}
SendInput(args, then) == <<Punct("(")>> \o comma_separated(args) \o <<Punct(")")>> \o then
ReceiveInput(args, then) == <<Punct("[")>> \o comma_separated(args) \o <<Punct("]")>> \o then
BranchInput(args, then) ==
    <<Punct("{"), Punct("."), Ident("x"), Punct("(")>> \o comma_separated(args)
        \o <<Punct(")"), Punct("=>")>> \o then \o <<Punct("}")>>
TypInputs ==
    {SendInput(args, then) : args \in ArgLists, then \in TypThens}
        \cup {ReceiveInput(args, then) : args \in ArgLists, then \in TypThens}
        \cup {BranchInput(args, then) : args \in ArgLists, then \in TypThens}

InitTyp ==
    /\ CompilerAtRest
    /\ \E toks \in TypInputs : parsing = StartParsing(toks, call("typ"), FALSE)

SpecTyp == InitTyp /\ [][ParseNext]_vars

\* program: up to MaxItems items, well formed or not
MaxItems == 2
DefItem(name, expr) == <<Ident("def"), Ident(name), Punct("=")>> \o expr
WellFormedItems ==
    { <<Ident("type"), Ident("T"), Punct("="), Punct("!")>>,
      <<Ident("dec"), Ident("f"), Punct(":"), Punct("!")>>,
      DefItem("f", <<Punct("!")>>),
      DefItem("f", <<Punct("{"), Punct("}")>>),
      DefItem("g", <<Punct("!")>>) }
MalformedItems == { <<Ident("f")>>, <<Ident("def"), Ident("f"), Punct("!")>> }
ProgramInputs ==
    {flatten(items) : items \in SeqsUpTo(WellFormedItems \cup MalformedItems, MaxItems)}

InitProgram ==
    /\ CompilerAtRest
    /\ \E toks \in ProgramInputs : parsing = StartParsing(toks, call("program"), TRUE)

SpecProgram == InitProgram /\ [][ParseNext]_vars

\* expression: the forms of construction and application around the
\* expressions of ExprAtoms, nested MaxNest deep
MaxNest == 1
ExprAtoms == { <<Punct("!")>>, <<Ident("a")>>, <<Punct("{"), Punct("}")>> }
ExprForms(e) ==
    { e,
      <<Punct("{")>> \o e \o <<Punct("}")>>,
      <<Punct("{"), Punct("."), Ident("a"), Punct("=>")>> \o e \o <<Punct("}")>>,
      <<Punct("{"), Punct("."), Ident("a"), Punct("=>")>> \o e \o <<Punct(","), Punct("}")>>,
      <<Punct("."), Ident("a")>> \o e,
      <<Punct("(")>> \o e \o <<Punct(")"), Punct("!")>>,
      <<Punct("("), Ident("type"), Ident("a"), Punct(")")>> \o e,
      <<Punct("["), Ident("a"), Punct("]")>> \o e,
      <<Punct("["), Ident("type"), Ident("a"), Punct("]")>> \o e,
      <<Ident("a"), Punct("(")>> \o e \o <<Punct(")")>>,
      <<Ident("let"), Ident("a"), Punct("=")>> \o e \o <<Ident("in")>> \o e,
      <<Ident("chan"), Ident("a"), Punct("{"), Ident("a"), Punct("!"), Punct("}")>>,
      <<Ident("begin")>> \o e,
      <<Ident("let"), Ident("a"), Punct("=")>> \o e }
RECURSIVE ExprInputs(_)
ExprInputs(nest) ==
    IF nest = 0 THEN ExprAtoms
    ELSE UNION {ExprForms(e) : e \in ExprInputs(nest - 1)}

\* the token after an expression: with_loc needs one to look at
InitExpression ==
    /\ CompilerAtRest
    /\ \E toks \in ExprInputs(MaxNest), rest \in {<<>>, <<Punct("}")>>} :
          parsing = StartParsing(toks \o rest, call("expression"), FALSE)

SpecExpression == InitExpression /\ [][ParseNext \/ ParseRelaxed]_vars

\* with_span(loop_label), as in test_loop_label: source texts of up to
\* MaxSpanToks lexemes, each after `gap` blanks; lex gives every token the
\* byte range of its lexeme in the text
MaxSpanToks == 3
Lexeme(text, gap) == [text |-> text, gap |-> gap]

RECURSIVE lex(_, _, _)
lex(lexemes, i, at) ==
    IF i > Len(lexemes) THEN <<>>
    ELSE LET l == lexemes[i]
             start == at + l.gap
             end == start + Len(l.text)
             kind == IF l.text = ":" THEN "Punct" ELSE "Ident"
         IN  <<[kind |-> kind, text |-> l.text, span |-> [start |-> start, end |-> end]]>>
                 \o lex(lexemes, i + 1, end)

\* two identifiers are two lexemes only with a blank between them
SpanTexts ==
    {t \in SeqsUpTo({Lexeme(w, g) : w \in {":", "x", "one"}, g \in 0..1}, MaxSpanToks) :
        \A i \in 2..Len(t) : (t[i - 1].text # ":" /\ t[i].text # ":") => t[i].gap > 0}

InitSpan ==
    /\ CompilerAtRest
    /\ \E t \in SpanTexts, whole \in BOOLEAN :
          parsing = StartParsing(lex(t, 1, 0), with_span(call("loop_label")), whole)

\* loop_label runs within the step of its caller
SpecSpan == InitSpan /\ [][ParseBegin \/ ParseEnd]_vars

(***************************************************************************)
(* The untyped parser (src/parse.rs).  Its input is the tree of pairs that *)
(* the grammar rule `program` yields (the grammar file is not part of the  *)
(* sources at hand): a pair is a record with its `rule` and its inner      *)
(* pairs by role; a name is the string of its pair, as names compare by    *)
(* their strings alone.                                                    *)
(***************************************************************************)
PairReference(name) == [rule |-> "reference", name |-> name]
PairFork(object, process) == [rule |-> "fork", object |-> object, process |-> process]
PairLet(name, expression, process) ==
    [rule |-> "p_let", name |-> name, expression |-> expression, process |-> process]
PairLink(subject, expression) ==
    [rule |-> "p_link", subject |-> subject, expression |-> expression]
PairBreak(subject) == [rule |-> "p_break", subject |-> subject]
PairContinue(subject, process) ==
    [rule |-> "p_continue", subject |-> subject, process |-> process]
PairSend(subject, expression, process) ==
    [rule |-> "p_send", subject |-> subject, expression |-> expression, process |-> process]
PairReceive(subject, parameter, process) ==
    [rule |-> "p_receive", subject |-> subject, parameter |-> parameter, process |-> process]
PairSelect(subject, branch, process) ==
    [rule |-> "p_select", subject |-> subject, branch |-> branch, process |-> process]
\* branches: a sequence of [branch, process]; otherwise: <<>> or <<process>>
PairCase(subject, branches, otherwise) ==
    [rule |-> "p_case", subject |-> subject,
     branches |-> [rule |-> "p_branches", inner |-> branches], otherwise |-> otherwise]

\* Expression and Process of base.rs, as parse.rs builds them
ExpressionFork(variables, object, process) ==
    [n |-> "Fork", variables |-> variables, object |-> object, process |-> process]
ExpressionRef(name) == [n |-> "Ref", name |-> name]
ProcessLet(name, expr, proc) == [n |-> "Let", name |-> name, expr |-> expr, proc |-> proc]
ProcessLink(subject, argument) == [n |-> "Link", subject |-> subject, argument |-> argument]
ProcessDo(subject, command) == [n |-> "Do", subject |-> subject, command |-> command]

\* if let Some(index) = free.iter().position(|v| v == &name) {
\*     free.swap_remove(index); }
\* position gives the first index that holds the name
remove_first(free, name) ==
    IF \E i \in 1..Len(free) : free[i] = name
    THEN swap_remove(free, CHOOSE i \in 1..Len(free) :
                               free[i] = name /\ \A j \in 1..(i - 1) : free[j] # name)
    ELSE free

Parsed(val, free) == [val |-> val, free |-> free]

\* parse_expression and parse_process, which call each other, as one operator:
\* each matches on the rule of the pair it is given, and the arms below are
\* theirs; `free` is the vector both push to, returned with the value.  The
\* arm of p_branches is the loop over the branches of a case.
RECURSIVE parse_pair(_, _)
parse_pair(pair, free) ==
    CASE pair.rule = "fork" ->
           (LET process == parse_pair(pair.process, free)
                free1 == remove_first(process.free, pair.object)
            IN  Parsed(ExpressionFork(free1, pair.object, process.val), free1))
      [] pair.rule = "reference" ->
           Parsed(ExpressionRef(pair.name), Append(free, pair.name))
      [] pair.rule = "p_let" ->
           (LET expr == parse_pair(pair.expression, free)
                proc == parse_pair(pair.process, expr.free)
            IN  Parsed(ProcessLet(pair.name, expr.val, proc.val),
                       remove_first(proc.free, pair.name)))
      [] pair.rule = "p_link" ->
           (LET argument == parse_pair(pair.expression, free)
            IN  Parsed(ProcessLink(pair.subject, argument.val),
                       Append(argument.free, pair.subject)))
      [] pair.rule = "p_break" ->
           Parsed(ProcessDo(pair.subject, [c |-> "Break"]), Append(free, pair.subject))
      [] pair.rule = "p_continue" ->
           (LET then == parse_pair(pair.process, free)
            IN  Parsed(ProcessDo(pair.subject, [c |-> "Continue", then |-> then.val]),
                       Append(then.free, pair.subject)))
      [] pair.rule = "p_send" ->
           (LET argument == parse_pair(pair.expression, free)
                then == parse_pair(pair.process, argument.free)
            IN  Parsed(ProcessDo(pair.subject,
                                 [c |-> "Send", argument |-> argument.val, then |-> then.val]),
                       then.free))
      [] pair.rule = "p_receive" ->
           (LET then == parse_pair(pair.process, free)
            IN  Parsed(ProcessDo(pair.subject,
                                 [c |-> "Receive", parameter |-> pair.parameter,
                                  then |-> then.val]),
                       remove_first(then.free, pair.parameter)))
      [] pair.rule = "p_select" ->
           (LET then == parse_pair(pair.process, free)
            IN  Parsed(ProcessDo(pair.subject,
                                 [c |-> "Select", branch |-> pair.branch, then |-> then.val]),
                       then.free))
      [] pair.rule = "p_branches" ->
           (IF pair.inner = <<>> THEN Parsed(<<>>, free)
            ELSE LET process == parse_pair(Head(pair.inner).process, free)
                     rest == parse_pair([pair EXCEPT !.inner = Tail(@)], process.free)
                 IN  Parsed(<<[branch |-> Head(pair.inner).branch, process |-> process.val]>>
                               \o rest.val,
                            rest.free))
      [] pair.rule = "p_case" ->
           (LET branches == parse_pair(pair.branches, free)
                otherwise == IF pair.otherwise = <<>> THEN Parsed(<<>>, branches.free)
                             ELSE LET o == parse_pair(pair.otherwise[1], branches.free)
                                  IN  Parsed(<<o.val>>, o.free)
            IN  Parsed(ProcessDo(pair.subject,
                                 [c |-> "Case", branches |-> branches.val,
                                  otherwise |-> otherwise.val]),
                       otherwise.free))

\* parse_program: each item is parsed with a `free` of its own; a name
\* defined twice is an error.  items: the pairs [name, expression] of the
\* program; statics: the map built so far.
RECURSIVE parse_items(_, _)
parse_items(items, statics) ==
    IF items = <<>> THEN [st |-> "ok", statics |-> statics]
    ELSE LET name == Head(items).name
             expr == parse_pair(Head(items).expression, <<>>).val
         IN  IF get_index_of(statics, name) # 0
             THEN [st |-> "err", message |-> "\"" \o name \o "\" is already defined"]
             ELSE parse_items(Tail(items), insert(statics, [name |-> name, expr |-> expr]))

parse_program(source) == parse_items(source, <<>>)

\* the programs parsed: one definition of a fork over a body of the shapes
\* below, or two definitions of small forks
MaxStatics == 2
PestNames == {"a", "x"}
PestArguments ==
    {PairReference(n) : n \in PestNames} \cup {PairFork("b", PairLink("b", PairReference("x")))}
PestEnds ==
    {PairBreak(n) : n \in PestNames} \cup
    {PairLink(n, e) : n \in PestNames, e \in PestArguments}
PestSteps(rest) ==
    {PairContinue(n, p) : n \in PestNames, p \in rest} \cup
    {PairSelect(n, "l", p) : n \in PestNames, p \in rest} \cup
    {PairReceive(n, m, p) : n \in PestNames, m \in PestNames, p \in rest} \cup
    {PairSend(n, e, p) : n \in PestNames, e \in PestArguments, p \in rest} \cup
    {PairLet(n, e, p) : n \in PestNames, e \in PestArguments, p \in rest} \cup
    {PairCase(n, <<[branch |-> "l", process |-> p]>>, o) :
        n \in PestNames, p \in rest, o \in {<<>>, <<PairBreak("x")>>}}
PestBodies ==
    PestEnds \cup PestSteps(PestEnds) \cup
    PestSteps({PairLet("x", PairReference("a"), PairLink("x", PairReference("x"))),
               PairReceive("a", "x", PairBreak("a"))})
PestPrograms ==
    {<<[name |-> "f", expression |-> PairFork("a", p)]>> : p \in PestBodies} \cup
    {s \in SeqsUpTo({[name |-> n, expression |-> PairFork("a", p)] :
                        n \in {"f", "g"}, p \in {PairBreak("a"), PairBreak("x")}},
                    MaxStatics) : Len(s) >= 2}

NotParsed == [st |-> "none"]

InitPest ==
    /\ program = ProgramOf(<<>>)
    /\ compiler = NewCompiler(program)
    /\ next_key = 1
    /\ compiled = NoCompiled
    /\ \E source \in PestPrograms : parsing = [source |-> source, context |-> NotParsed]

\* parse_program(source)
ParseProgram ==
    /\ "source" \in DOMAIN parsing
    /\ parsing.context = NotParsed
    /\ parsing' = [parsing EXCEPT !.context = parse_program(parsing.source)]
    /\ UNCHANGED <<program, compiler, next_key, compiled>>

SpecPest == InitPest /\ [][ParseProgram]_vars

(***************************************************************************)
(* Properties of the compiler.                                             *)
(***************************************************************************)
Events(kind) == {i \in 1..Len(compiler.log) : compiler.log[i].ev = kind}

UnwrapNone == "called Option::unwrap() on a None value"

\* the global names an expression refers to
RECURSIVE ExprRefs(_), ProcRefs(_)
ExprRefs(expr) ==
    IF expr.e = "Reference" THEN {expr.name}
    ELSE {expr.captures[i] : i \in 1..Len(expr.captures)} \cup ProcRefs(expr.proc)
ProcRefs(proc) ==
    CASE proc.p = "Let" -> ExprRefs(proc.value) \cup ProcRefs(proc.rest)
      [] proc.p = "Do" ->
            {proc.name} \cup
            (CASE proc.cmd.c = "Link" -> ExprRefs(proc.cmd.a)
               [] proc.cmd.c = "Send" -> ExprRefs(proc.cmd.expr) \cup ProcRefs(proc.cmd.process)
               [] proc.cmd.c \in {"Continue", "Receive", "SendType", "ReceiveType"} ->
                     ProcRefs(proc.cmd.process)
               [] proc.cmd.c = "Match" ->
                     UNION {ProcRefs(proc.cmd.processes[i]) :
                              i \in 1..Len(proc.cmd.processes)}
               [] OTHER -> {})
      [] OTHER -> {}

DefinedNames == {program.definitions[i].name : i \in 1..Len(program.definitions)}

DefRefs(n) == ExprRefs(program.definitions[get_index_of(program.definitions, n)].expr)
                 \cap DefinedNames

\* the definitions reachable from n through references, in at least one step
RECURSIVE ReachFrom(_, _)
ReachFrom(seen, k) ==
    IF k = 0 THEN seen
    ELSE ReachFrom(seen \cup UNION {DefRefs(m) : m \in seen}, k - 1)
Reaches(n) == ReachFrom(DefRefs(n), Len(program.definitions))

\* C1: in a compilation that completes, every Linear binding was taken out of
\* the environment by exactly one use (none is dropped or overwritten while live).
C1_LinearUsedExactlyOnce ==
    compiled.done =>
        \A i \in Events("insert") :
            compiler.log[i].kind = "Linear" =>
                Cardinality({j \in Events("remove") :
                                compiler.log[j].bind = compiler.log[i].bind}) = 1

\* C2: after compile_file, every definition name has its own package id, and the
\* package and the type at that id are the ones compiled from that definition.
C2_NamesMapToOwnPackages ==
    compiled.done =>
        /\ \A n \in DefinedNames : get_index_of(compiled.name_to_id, n) # 0
        /\ \A i, j \in 1..Len(compiled.name_to_id) :
              i # j => compiled.name_to_id[i].id # compiled.name_to_id[j].id
        /\ \A e \in Events("global") :
              ~compiler.log[e].memo =>
                 LET ev == compiler.log[e]
                     id == compiled.name_to_id[get_index_of(compiled.name_to_id, ev.name)].id
                 IN  /\ id < Len(compiled.id_to_package)
                     /\ compiled.id_to_package[id + 1] = ev.tree
                     /\ compiler.id_to_ty[id + 1] = ev.ty

\* C3: a definition that references itself, directly or through a sibling,
\* compiles without the inner reference ending the compilation: the lookup of
\* the pre-registered id answers.
C3_SelfReferenceResolves ==
    (\E n \in DefinedNames : n \in Reaches(n)) => compiler.err # UnwrapNone

\* C4: compile_global on a name whose compilation has finished returns the id
\* and the type of the first call and changes nothing else.
C4_MemoizedCallSameResult ==
    \A e \in Events("global") :
        compiler.log[e].memo =>
            \A f \in Events("global") :
                (f < e /\ ~compiler.log[f].memo
                   /\ compiler.log[f].name = compiler.log[e].name) =>
                    /\ compiler.log[e].id = compiler.log[f].id
                    /\ compiler.log[e].ty = compiler.log[f].ty
                    /\ compiler.log[e].before = compiler.log[e].after

(***************************************************************************)
(* Properties of the parser.                                               *)
(***************************************************************************)
\* the parser that was started has come to its result
ParseDone == Parsing /\ parsing.result.st # "none"

\* the items of a program input, when it is made of well-formed items only
ItemsOf(toks) ==
    {items \in SeqsUpTo(WellFormedItems, MaxItems) : flatten(items) = toks}

\* the Program holds each item under its name
ItemsHeld(prog, items) ==
    \A i \in 1..Len(items) :
        LET kind == items[i][1].text
            n == items[i][2].text
        IN  /\ kind = "type" => get_index_of(prog.type_defs, n) # 0
            /\ kind = "dec" => get_index_of(prog.declarations, n) # 0
            /\ kind = "def" => /\ get_index_of(prog.declarations, n) # 0
                               /\ get_index_of(prog.definitions, n) # 0

\* C5: program succeeds on every sequence of zero or more well-formed type, dec
\* and def items, the empty one included, and returns a Program holding them;
\* it fails only on an unrecognized or malformed item, and then the failure is
\* labelled with the three expected alternatives.
C5_ProgramAcceptsItemSequences ==
    (ParseDone /\ parsing.entry = call("program")) =>
        IF ItemsOf(parsing.input) # {}
        THEN /\ parsing.result.st = "ok"
             /\ \A items \in ItemsOf(parsing.input) : ItemsHeld(parsing.result.val, items)
        ELSE /\ parsing.result.st # "ok"
             /\ \A label \in {"type", "declaration", "definition"} :
                   \E i \in 1..Len(parsing.result.ctx) : parsing.result.ctx[i] = label

\* the type a one-token argument or continuation stands for
TypOf(toks) ==
    CASE toks = <<Punct("!")>> -> TBreak
      [] toks = <<Punct("?")>> -> TContinue
      [] OTHER -> [t |-> "Name", name |-> toks[1].text, args |-> <<>>]

\* node(a, node(b, ... node(c, then))) for the arguments a, b, ..., c
RECURSIVE Nested(_, _, _)
Nested(node, args, then) ==
    IF args = <<>> THEN TypOf(then)
    ELSE [t |-> node, a |-> TypOf(Head(args)), b |-> Nested(node, Tail(args), then)]

\* C6: typ on `(a, b, c) T` yields Send(a, Send(b, Send(c, T))) and on
\* `[a, b, c] T` yields Receive(a, Receive(b, Receive(c, T))), for every number
\* of arguments from one up: each argument is the first component of its node,
\* the rest is the continuation, the arguments keep their order and T is innermost.
C6_ArgumentsNestInSourceOrder ==
    (ParseDone /\ parsing.entry = call("typ")) =>
        \A args \in ArgLists, then \in TypThens :
            /\ parsing.input = SendInput(args, then) =>
                  /\ parsing.result.st = "ok"
                  /\ parsing.result.val = Nested("Send", args, then)
            /\ parsing.input = ReceiveInput(args, then) =>
                  /\ parsing.result.st = "ok"
                  /\ parsing.result.val = Nested("Receive", args, then)

\* C7: the grammar with its commit points never rejects an input that the same
\* grammar with full backtracking accepts; among others the either construction
\* `{ .a => e }` is accepted as an expression.
C7_CommitNeverRejectsAccepted ==
    (Parsing /\ parsing.entry = call("expression") /\ parsing.relaxed.st = "ok") =>
        parsing.result.st = "ok"

\* C8: a program with two def items of one name parses without an error and
\* its definitions hold one entry for the name, the later expression (the one
\* compile_file then makes the single package of the name from).
C8_LaterDefinitionWins ==
    \A e1, e2 \in {<<Punct("!")>>, <<Punct("{"), Punct("}")>>} :
        (ParseDone /\ parsing.input = DefItem("f", e1) \o DefItem("f", e2)) =>
            /\ parsing.result.st = "ok"
            /\ Len(parsing.result.val.definitions) = 1
            /\ parsing.result.val.definitions[1].name = "f"
            \* the expression that starts at the first token after the later `=`
            /\ parsing.result.val.definitions[1].expr.v[2] = Len(DefItem("f", e1)) + 4

\* the reserved keywords
ReservedKeywords ==
    {"type", "dec", "def", "chan", "let", "do", "in", "pass", "begin", "loop",
     "telltypes", "either", "recursive", "iterative", "self"}

\* C9: name fails, consuming nothing, on each of the 15 reserved keywords and
\* succeeds on every other Ident token, consuming exactly that token.
C9_NameRejectsKeywordsOnly ==
    (ParseDone /\ parsing.entry = call("name") /\ parsing.input # <<>>
        /\ parsing.input[1].kind = "Ident") =>
        IF parsing.input[1].text \in ReservedKeywords
        THEN parsing.result.st = "backtrack" /\ parsing.result.pos = 0
        ELSE /\ parsing.result.st = "ok"
             /\ parsing.result.pos = 1
             /\ parsing.result.val = parsing.input[1].text

\* name has been run on the keyword `self` followed by an identifier
C9_NameRanOnKeyword ==
    /\ ParseDone
    /\ parsing.entry = call("name")
    /\ parsing.input = <<Ident("self"), Ident("x")>>
    /\ parsing.result.st = "backtrack"
    /\ parsing.result.pos = 0

\* what list(item) takes for an item
IsItem(item, tok) ==
    IF item = literal("ab") THEN tok.text = "ab"
    ELSE tok.kind = "Ident" /\ tok.text \notin ReservedKeywords

\* items separated by single commas, at least one, with at most one comma at the end
IsItemList(item, toks) ==
    /\ Len(toks) >= 1
    /\ \A i \in 1..Len(toks) :
          IF i % 2 = 1 THEN IsItem(item, toks[i]) ELSE toks[i] = Punct(",")

\* C10: list(item), required to consume its whole input, accepts exactly the
\* inputs of one or more items separated by single commas with at most one comma
\* at the end, and returns the items in input order; the empty input, a
\* non-item and two commas in a row are rejected.
C10_ListAcceptsExactlyItemLists ==
    \A item \in ListItems :
        (ParseDone /\ parsing.whole /\ parsing.entry = list(item)) =>
            /\ parsing.result.st = "ok" <=> IsItemList(item, parsing.input)
            /\ parsing.result.st = "ok" =>
                  parsing.result.val =
                      [i \in 1..((Len(parsing.input) + 1) \div 2) |->
                          parsing.input[2 * i - 1].text]

\* list("ab") has accepted two items with a comma at the end
C10_ListTookTrailingComma ==
    /\ ParseDone
    /\ parsing.entry = list(literal("ab"))
    /\ parsing.input = <<Ident("ab"), Punct(","), Ident("ab"), Punct(",")>>
    /\ parsing.result.st = "ok"
    /\ parsing.result.val = <<"ab", "ab">>

\* a name, as loop_label takes it
IsName(tok) == tok.kind = "Ident" /\ tok.text \notin ReservedKeywords

\* C11: loop_label on `:` followed by a name returns Some(name), and with_span
\* around a parser that consumed at least one token reports the byte range
\* from the start of the first consumed token to the end of the last consumed
\* token, whether or not unconsumed tokens follow.
C11_SpanCoversConsumedTokens ==
    (ParseDone /\ parsing.entry = with_span(call("loop_label")) /\ ~parsing.whole) =>
        LET toks == parsing.input
            r == parsing.result
        IN  /\ (Len(toks) >= 2 /\ toks[1].text = ":" /\ IsName(toks[2])) =>
                    (r.st = "ok" /\ r.pos = 2 /\ r.val[1] = Some(toks[2].text))
            /\ (r.st = "ok" /\ r.pos >= 1) =>
                    r.val[2] = [start |-> toks[1].span.start, end |-> toks[r.pos].span.end]

\* the wire ends in a tree, as a bag
RECURSIVE EndsOf(_)
EndsOf(tree) ==
    CASE tree.k = "W" -> SetToBag({tree})
      [] tree.k \in {"C", "D"} -> EndsOf(tree.l) (+) EndsOf(tree.r)
      [] OTHER -> EmptyBag

\* the ids of the wires in a tree
WiresOf(tree) == {end.id : end \in BagToSet(EndsOf(tree))}

\* the history of the definition `name` compiled from its body
Compiled(name) ==
    {j \in Events("global") : compiler.log[j].name = name /\ ~compiler.log[j].memo}

\* the links of a scope that referred k times to the definition g: the j-th
\* D node is D(v0, w0) on two fresh wires, linked to the handle stored
\* before it (the package reference at first, then the w1 of the D node
\* before), v1 is what the reference returned (here erased by `x?`), and
\* the last w1 is what the scope erases under the name g at its end
UsesLinked(links, g, k) ==
    LET dups == {j \in 1..Len(links) : links[j][1].k = "D"}
        dup(n) == CHOOSE j \in dups : Cardinality({i \in dups : i < j}) = n - 1
        id == compiler.global_name_to_id[get_index_of(compiler.global_name_to_id, g)].id
        stored(n) == IF n = 0 THEN Package(id) ELSE Wire(links[dup(n)][1].r.id, 1)
        inserts == {j \in Events("insert") : compiler.log[j].name = g}
    IN  /\ Cardinality(dups) = k - 1
        /\ <<Package(id), TreeE>> \in {links[j] : j \in 1..Len(links)}
        /\ \A n \in 1..(k - 1) :
              LET d == links[dup(n)][1] IN
              /\ d.l.k = "W" /\ d.l.end = 0
              /\ d.r.k = "W" /\ d.r.end = 0
              /\ d.l.id # d.r.id
              /\ \A j \in 1..(dup(n) - 1) :
                    {d.l.id, d.r.id} \cap (WiresOf(links[j][1]) \cup WiresOf(links[j][2])) = {}
              /\ links[dup(n)][2] = stored(n - 1)
              /\ <<Wire(d.l.id, 1), TreeE>> \in {links[j] : j \in 1..Len(links)}
        /\ Cardinality(inserts) = k
        /\ \A j \in inserts :
              /\ compiler.log[j].kind = "Replicable"
              /\ compiler.log[j].ty = TBreak
              /\ compiler.log[j].site = IF j = CHOOSE i \in inserts : \A h \in inserts : i <= h
                                        THEN "global" ELSE "reuse"
        /\ \E j \in Events("erase") :
              compiler.log[j].name = g /\ compiler.log[j].tree = stored(k - 1)

\* C12: within one scope, k >= 1 references to a global create exactly k-1
\* D nodes: the first reference stores the package reference under the name
\* as Replicable and returns it, every later one links D(v0, w0) to the
\* stored handle, stores w1 under the same name with the same type and kind
\* and returns v1, (w0, w1) and (v0, v1) being fresh wires.
C12_GlobalUsesMakeDups ==
    \A d \in 1..Len(program.definitions), k \in 1..MaxUses :
        LET def == program.definitions[d] IN
        \A j \in Compiled(def.name) :
            def.expr = Uses(DefNames[3 - d], k) =>
                UsesLinked(compiler.log[j].net.links, DefNames[3 - d], k)

\* a scope with MaxUses references to a global has been compiled
C12_ScopeUsedGlobal ==
    /\ compiled.done
    /\ \E d \in 1..Len(program.definitions) :
          /\ program.definitions[d].expr = Uses(DefNames[3 - d], MaxUses)
          /\ \E j \in Compiled(program.definitions[d].name) :
                \E i \in 1..Len(compiler.log[j].net.links) :
                    compiler.log[j].net.links[i][1].k = "D"

\* the history entries of the binding numbered b
EventsOf(kind, b) == {j \in Events(kind) : compiler.log[j].bind = b}

\* C13: every Replicable or Boxed handle that was stored in the environment
\* and not handed out is linked to E exactly once by the time the
\* compilation finishes, also a handle that is live when a Let binds the
\* same name and the handles live when Match takes the environment.
C13_StoredHandlesErasedOnce ==
    compiled.done =>
        \A j \in Events("insert") :
            LET e == compiler.log[j] IN
            (e.kind \in {"Replicable", "Boxed"} /\ EventsOf("remove", e.bind) = {}) =>
                Cardinality(EventsOf("erase", e.bind)) = 1

\* the wire ends placed by links[i..], as a bag
RECURSIVE PlacedEnds(_, _)
PlacedEnds(links, i) ==
    IF i > Len(links) THEN EmptyBag
    ELSE EndsOf(links[i][1]) (+) EndsOf(links[i][2]) (+) PlacedEnds(links, i + 1)

\* C14: when compile_global finishes a definition without error, each of
\* the two ends of every wire created during that compilation has been
\* placed in exactly one position, inside a tree handed to link or in the
\* package port, also for bodies that use Match while variables are live.
C14_EveryWireEndPlacedOnce ==
    \A j \in Events("global") :
        LET e == compiler.log[j] IN
        ~e.memo =>
            LET placed == PlacedEnds(e.net.links, 1) (+) EndsOf(e.tree) IN
            \A id \in 0..(e.net.wires - 1), end \in 0..1 :
                CopiesIn(Wire(id, end), placed) = 1

\* where the lowering binds a Linear variable
LinearSites == {"fork", "let", "send", "receive subject", "receive target", "match subject"}

\* C15: every Linear binding made during lowering (the Fork channel, a Let
\* key, the subject rebound by Send, Receive and Match, the Receive target)
\* is a fatal error when the name is already in the environment; no binding
\* replaces a live entry.
C15_LinearBindingNeverReplaces ==
    \A j \in Events("insert") :
        LET e == compiler.log[j] IN
        (e.site \in LinearSites /\ e.replaced # 0) =>
            (compiler.err = "assertion failed" /\ j = Len(compiler.log))

\* C16: use_variable(name) fails with "unknown variable" exactly when name
\* is neither in the current environment nor a key of the program's
\* definitions; a variable of an enclosing scope that a Fork does not
\* capture is unknown in the body of the Fork.
C16_UnknownExactlyWhenUnbound ==
    \A j \in Events("use") :
        LET e == compiler.log[j] IN
        (compiler.err = "unknown variable" /\ j = Len(compiler.log))
            <=> (~e.bound /\ e.name \notin DefinedNames)

\* the body of a Fork without captures has referred to a variable that is
\* live in the enclosing scope
C16_UncapturedIsUnknown ==
    /\ compiler.err = "unknown variable"
    /\ compiler.log[Len(compiler.log)] = [ev |-> "use", name |-> "x", bound |-> FALSE]
    /\ \E j \in Events("insert") :
          /\ compiler.log[j].name = "x"
          /\ compiler.log[j].site = "let"
          /\ EventsOf("remove", compiler.log[j].bind) = {}
          /\ \E i \in Events("insert") : i > j /\ compiler.log[i].site = "fork"

\* C17: the index that Choose passes to choice_instance for a branch is the
\* position of the branch in the declared order of the Choice type: it is
\* the index that cast Choice->Choice uses for the same branch of the same
\* type, and swapping two branches in the declaration swaps their indices.
C17_ChooseIndexIsDeclaredPosition ==
    \A j \in Events("instance") :
        LET e == compiler.log[j] IN
        e.site = "choose" =>
            /\ e.index = get_index_of(e.branches, e.branch) - 1
            /\ \A i \in Events("instance") :
                  LET d == compiler.log[i] IN
                  (d.site = "cast" /\ d.branches = e.branches /\ d.branch = e.branch) =>
                      d.index = e.index

\* the program casts f from its type to the annotation of `def g = f`
Casting ==
    /\ Len(program.definitions) = 2
    /\ program.definitions[1].expr.e = "Fork"
    /\ program.definitions[2].expr.e = "Reference"

CastFrom == dual(program.definitions[1].expr.typ)
CastTo == program.definitions[2].expr.ty

\* compile_global has been called for both definitions
CastDone == Casting /\ next_key = 3

\* Break, Continue, and the Send, Receive and Choice types built of them
RECURSIVE Plain(_)
Plain(ty) ==
    CASE ty.t \in {"Break", "Continue"} -> TRUE
      [] ty.t \in {"Send", "Receive"} -> Plain(ty.a) /\ Plain(ty.b)
      [] ty.t = "Choice" -> \A i \in 1..Len(ty.br) : Plain(ty.br[i].ty)
      [] OTHER -> FALSE

\* C18: cast(x, x.ty) returns x itself and adds no wire, node or link to the
\* net whenever x.ty is Break, Continue, or a Send, Receive or Choice built
\* only from such types.  (x is the package reference of f; the one link of
\* g is the erasure of the stored handle at the end of the scope.)
C18_CastToOwnTypeIsIdentity ==
    (CastDone /\ CastFrom = CastTo /\ Plain(CastFrom)) =>
        /\ compiler.err = ""
        /\ \A j \in Compiled("g") :
              LET e == compiler.log[j] IN
              /\ e.tree = Package(0)
              /\ e.net.wires = 0
              /\ e.net.links = <<<<Package(0), TreeE>>>>

\* the pairs of types the claim counts as supported, components included
RECURSIVE Supported(_, _)
Supported(from, to) ==
    CASE from.t \in {"Send", "Receive"} /\ to.t = from.t ->
            Supported(from.a, to.a) /\ Supported(from.b, to.b)
      [] from.t \in {"Choice", "Break", "Continue"} /\ to.t = from.t -> TRUE
      [] OTHER -> FALSE

\* C19: cast between types whose top-level constructors differ, or between
\* any two types outside the Send/Send, Receive/Receive, Choice/Choice,
\* Break/Break and Continue/Continue pairs, fails with the fatal
\* cast-not-implemented error, also when the unsupported pair is that of a
\* component of a Send or Receive being cast.
C19_UnsupportedCastIsFatal ==
    (CastDone /\ ~Supported(CastFrom, CastTo)) =>
        compiler.err = "not yet implemented: Can't cast"

\* the choice_instance events of the cast, in the order they were built
CastInstances ==
    {j \in Events("instance") : compiler.log[j].site = "cast"}

\* C20: cast Choice->Choice fails fatally when a branch of the source type
\* is missing from the target; otherwise it builds, for every source branch
\* k, one choice_instance whose index is the position of k in the branch
\* order of the target and whose width is the number of branches of the
\* target, and links the either_instance of all of them to the original
\* tree exactly once.
C20_ChoiceCastIndexesByTarget ==
    (CastDone /\ CastFrom.t = "Choice" /\ CastTo.t = "Choice") =>
        IF \E i \in 1..Len(CastFrom.br) : get_index_of(CastTo.br, CastFrom.br[i].name) = 0
        THEN compiler.err = "Can't cast between these choices"
        ELSE /\ compiler.err = ""
             /\ Cardinality(CastInstances) = Len(CastFrom.br)
             /\ \A i \in 1..Len(CastFrom.br) :
                   \E j \in CastInstances :
                       LET e == compiler.log[j] IN
                       /\ e.branch = CastFrom.br[i].name
                       /\ e.index = get_index_of(CastTo.br, e.branch) - 1
                       /\ e.out_of = Len(CastTo.br)
                       /\ e.other.k = "W" /\ e.other.end = 0
                       /\ e.tree = choice_instance(e.tree.l.id, Wire(e.other.id, 1),
                                                     e.index, e.out_of)
                       /\ e.tree.l.id # e.other.id
             /\ \A j \in Compiled("g") :
                   LET links == compiler.log[j].net.links
                       out == compiler.log[j].tree
                       built(n) == CHOOSE i \in CastInstances :
                                     Cardinality({h \in CastInstances : h < i}) = n - 1
                       cases == [n \in 1..Len(CastFrom.br) |->
                                    <<compiler.log[built(n)].tree, compiler.log[built(n)].other>>]
                   IN  /\ out.k = "W" /\ out.end = 0
                       /\ Cardinality({i \in 1..Len(links) :
                             links[i] = <<Package(0), either_instance(Wire(out.id, 1), cases)>>}) = 1
                       /\ Len(links) = 2

\* a Choice of one branch has been cast to a Choice that declares that
\* branch second
C20_CastWidenedChoice ==
    /\ compiled.done
    /\ Casting
    /\ CastFrom = TChoice(<<[name |-> "b", ty |-> TBreak]>>)
    /\ CastTo = TChoice(<<[name |-> "a", ty |-> TBreak], [name |-> "b", ty |-> TBreak]>>)
    /\ \E j \in CastInstances : compiler.log[j].index = 1 /\ compiler.log[j].out_of = 2

\* compile_file has called compile_global for the one definition f
LowerDone == Len(program.definitions) = 1 /\ next_key = 2

\* the links of the net in which f was compiled
LinksOf(name) == UNION {{compiler.log[j].net.links} : j \in Compiled(name)}

C22_MatchKeepsLiveVariables ==
    \A j \in Events("take") :
        LET e == compiler.log[j] IN
        Len(e.names) > 0 =>
            /\ \E i \in Events("context") : i > j
            /\ \A b \in Events("branch") :
                  b > j =>
                     \A n \in 1..Len(e.names) :
                         \E v \in 1..Len(compiler.log[b].vars) :
                             LET ent == compiler.log[b].vars[v] IN
                             /\ ent.name = e.names[n]
                             /\ ent.ty = e.tys[n]
                             /\ ent.kind = e.kinds[n]

\* the names of a sequence of branches
NamesOf(branches) == {branches[i].name : i \in 1..Len(branches)}

\* C23: in Match, the process given for the branch name n is compiled with
\* the subject bound to a wire typed with the type that the Either type
\* declares for n, whatever the order in which the command lists its
\* branches; a listed name that the type does not have is a fatal error,
\* and so is a branch of the type that the command does not list.
C23_BranchCompiledAtDeclaredType ==
    \A j \in Events("context") :
        LET e == compiler.log[j]
            listed == {e.names[i] : i \in 1..Len(e.names)}
        IN  IF listed # NamesOf(e.required)
            THEN compiler.err # ""
            ELSE /\ \A n \in listed : \E b \in Events("branch") : compiler.log[b].choice = n
                 /\ \A b \in Events("branch") :
                       LET br == compiler.log[b]
                           declared == br.required[get_index_of(br.required, br.choice)].ty
                       IN  \E v \in 1..Len(br.vars) :
                               /\ br.vars[v].name = br.subject
                               /\ br.vars[v].tree.k = "W"
                               /\ br.vars[v].ty = declared

\* the ids of the wires held by a net and by the entries of an environment
\* other than those of the given names
WiresIn(links, env, names) ==
    UNION {WiresOf(links[i][1]) \cup WiresOf(links[i][2]) : i \in 1..Len(links)}
        \cup UNION {WiresOf(env[i].tree) : i \in {k \in 1..Len(env) : env[k].name \notin names}}

Inside(i, r) ==
    /\ i < r
    /\ ~\E j \in Events("global") :
           i < j /\ j < r /\ ~compiler.log[j].memo /\ compiler.log[j].name = compiler.log[i].name

\* C25: a compile_global call that compiles a definition returns with the
\* net and the variable environment of its caller exactly as they were
\* before the call, and every variable that is taken out of the
\* environment while the definition is compiled was bound during that
\* compilation: the body sees no variable of the caller.
C25_NestedGlobalLeavesCallerUntouched ==
    /\ \A j \in Events("global") :
          LET e == compiler.log[j] IN
          ~e.memo => (e.after.net = e.before.net /\ e.after.vars = e.before.vars)
    /\ \A i \in Events("enter"), r \in Events("remove") :
          Inside(i, r) => compiler.log[r].bind > compiler.log[i].binds

\* a definition has been compiled in the middle of another one whose
\* environment held two variables and whose net held a link
C25_CompiledInsideScope ==
    /\ compiled.done
    /\ \E j \in Events("global") :
          LET e == compiler.log[j] IN
          /\ ~e.memo
          /\ Len(e.before.vars) = 2
          /\ Len(e.before.net.links) = 1

\* C26: choice_instance(inner, index, N) with index < N returns
\* C(w0, multiplex_trees of N trees), w0 and w1 being the two ends of one
\* fresh wire, where position index holds C(w1, inner) and the other N-1
\* positions hold E; with index >= N it fails fatally and returns no tree.
C26_ChoiceInstanceShape ==
    \A j \in Events("choice_instance") :
        LET e == compiler.log[j]
            w == e.before.wires
            trees == [i \in 1..e.out_of |->
                        IF i = e.index + 1 THEN TreeC(Wire(w, 1), e.tree) ELSE TreeE]
        IN  IF e.index < e.out_of
            THEN /\ compiler.err = ""
                 /\ compiler.ret.tree = TreeC(Wire(w, 0), multiplex_trees(trees))
                 /\ compiler.net.wires = w + 1
                 /\ w \notin WiresOf(e.tree)
                 /\ compiler.net.links = e.before.links
            ELSE /\ compiler.err = UnwrapNone
                 /\ compiler.ret = NoRet

\* choice_instance has built the instance of index 0 out of 2 around an end
\* of a wire
C26_ChoseFirstOfTwo ==
    \E j \in Events("choice_instance") :
        /\ compiler.log[j].index = 0
        /\ compiler.log[j].out_of = 2
        /\ compiler.log[j].tree = Wire(0, 1)
        /\ compiler.ret.tree = TreeC(Wire(1, 0), TreeC(TreeC(Wire(1, 1), Wire(0, 1)), TreeE))

\* the leaves of a tree, from left to right
RECURSIVE Leaves(_)
Leaves(tree) == IF tree.k = "C" THEN Leaves(tree.l) \o Leaves(tree.r) ELSE <<tree>>

\* the number of C nodes above the deepest leaf
RECURSIVE Depth(_)
Depth(tree) ==
    IF tree.k = "C"
    THEN 1 + (IF Depth(tree.l) > Depth(tree.r) THEN Depth(tree.l) ELSE Depth(tree.r))
    ELSE 0

\* ceil(log2 n) for n >= 1
RECURSIVE CeilLog2(_)
CeilLog2(n) == IF n <= 1 THEN 0 ELSE 1 + CeilLog2((n + 1) \div 2)

\* C27: multiplex_trees returns E for an empty list, the tree itself for a
\* singleton, and otherwise C of the multiplex_trees of the first
\* floor(n/2) trees and of the remaining trees; the input trees are the
\* leaves from left to right, in input order, each once, at a depth of at
\* most ceil(log2 n).
C27_MultiplexIsBalanced ==
    \A j \in Events("multiplex_trees") :
        LET trees == compiler.log[j].trees
            n == Len(trees)
            out == compiler.ret.tree
        IN  /\ n = 0 => out = TreeE
            /\ n = 1 => out = trees[1]
            /\ n >= 2 =>
                  /\ out.k = "C"
                  /\ Leaves(out.l) = SubSeq(trees, 1, n \div 2)
                  /\ Leaves(out.r) = SubSeq(trees, n \div 2 + 1, n)
                  /\ Depth(out.l) <= CeilLog2(n \div 2)
                  /\ Depth(out.r) <= CeilLog2(n - n \div 2)
            /\ n >= 1 => (Leaves(out) = trees /\ Depth(out) <= CeilLog2(n))

\* multiplex_trees has combined four different trees
C27_MultiplexedFour ==
    \E j \in Events("multiplex_trees") :
        /\ compiler.log[j].trees = <<TreeE, Package(0), Wire(0, 1), Wire(1, 1)>>
        /\ compiler.ret.tree = TreeC(TreeC(TreeE, Package(0)), TreeC(Wire(0, 1), Wire(1, 1)))

\* the paths of left and right turns from the root of a tree to a subtree
RECURSIVE PathsTo(_, _)
PathsTo(tree, sub) ==
    IF tree = sub THEN {<<>>}
    ELSE IF tree.k \in {"C", "D"}
    THEN {<<"l">> \o p : p \in PathsTo(tree.l, sub)}
            \cup {<<"r">> \o p : p \in PathsTo(tree.r, sub)}
    ELSE {}

\* C28: for a type with N >= 1 branches and every i < N, the position at
\* which Match places the case of the i-th branch, in the tree it links to
\* the subject, is the position at which choice_instance places the payload
\* for index i, in the tree that Choose and cast link to the channel.  (The
\* case of a branch is the C node whose right child is the far end of the
\* wire the subject is rebound to; the payload is C(w1, inner).)
C28_MatchCaseAtChoicePosition ==
    \A j \in Events("matched"), b \in Events("branch") :
        b < j =>
            LET br == compiler.log[b]
                instance == choice_instance(0, TreeE, br.index, Len(br.required))
            IN  PathsTo(compiler.log[j].tree, br.end)
                   = {p \o <<"r">> : p \in PathsTo(instance, TreeC(Wire(0, 1), TreeE))}

\* the items `dec name : T` among the items of a program input
DecsOf(items) == {i \in 1..Len(items) : items[i][1].text = "dec"}

\* C29: after parsing, every name introduced by a `dec name : T` item has
\* declarations[name] = Some of the latest type given for it by a dec or by
\* an annotated def; a `def name = e` without annotation after the dec does
\* not erase the declared type.  (The annotated def is not among the items
\* of the inputs, so the latest type of a declared name is that of its dec.)
C29_DeclaredTypeIsKept ==
    (ParseDone /\ parsing.entry = call("program")) =>
        \A items \in ItemsOf(parsing.input) :
            DecsOf(items) # {} =>
                /\ parsing.result.st = "ok"
                /\ \A i \in DecsOf(items) :
                      LET decs == parsing.result.val.declarations
                          d == get_index_of(decs, items[i][2].text)
                      IN  /\ d # 0
                          /\ decs[d].typ = Some(TypOf(<<items[i][4]>>))

\* the Fork expressions of a parsed expression or process, at any depth
RECURSIVE ForksIn(_)
ForksIn(node) ==
    CASE node.n = "Ref" -> {}
      [] node.n = "Fork" -> {node} \cup ForksIn(node.process)
      [] node.n = "Let" -> ForksIn(node.expr) \cup ForksIn(node.proc)
      [] node.n = "Link" -> ForksIn(node.argument)
      [] node.n = "Do" /\ node.command.c = "Break" -> {}
      [] node.n = "Do" /\ node.command.c = "Send" ->
            ForksIn(node.command.argument) \cup ForksIn(node.command.then)
      [] node.n = "Do" /\ node.command.c = "Case" ->
            UNION {ForksIn(node.command.branches[i].process) :
                      i \in 1..Len(node.command.branches)} \cup
            UNION {ForksIn(node.command.otherwise[i]) :
                      i \in 1..Len(node.command.otherwise)}
      [] OTHER -> ForksIn(node.command.then)

\* the names that occur free in a parsed expression or process
RECURSIVE FreeNames(_)
FreeNames(node) ==
    CASE node.n = "Ref" -> {node.name}
      [] node.n = "Fork" -> FreeNames(node.process) \ {node.object}
      [] node.n = "Let" -> FreeNames(node.expr) \cup (FreeNames(node.proc) \ {node.name})
      [] node.n = "Link" -> {node.subject} \cup FreeNames(node.argument)
      [] node.n = "Do" /\ node.command.c = "Break" -> {node.subject}
      [] node.n = "Do" /\ node.command.c = "Send" ->
            {node.subject} \cup FreeNames(node.command.argument)
                           \cup FreeNames(node.command.then)
      [] node.n = "Do" /\ node.command.c = "Receive" ->
            {node.subject} \cup (FreeNames(node.command.then) \ {node.command.parameter})
      [] node.n = "Do" /\ node.command.c = "Case" ->
            {node.subject} \cup
            UNION {FreeNames(node.command.branches[i].process) :
                      i \in 1..Len(node.command.branches)} \cup
            UNION {FreeNames(node.command.otherwise[i]) :
                      i \in 1..Len(node.command.otherwise)}
      [] OTHER -> {node.subject} \cup FreeNames(node.command.then)

\* C30: in the result of parse_program, the capture list of every Fork holds
\* exactly the names that occur free in the fork's body, the fork's own
\* channel name left out: no name bound inside the body by let or receive,
\* and the subject of every command on a variable bound outside the fork.
C30_CapturesAreFreeNames ==
    ("source" \in DOMAIN parsing /\ parsing.context.st = "ok") =>
        \A i \in 1..Len(parsing.context.statics) :
            \A fork \in ForksIn(parsing.context.statics[i].expr) :
                {fork.variables[j] : j \in 1..Len(fork.variables)}
                    = FreeNames(fork.process) \ {fork.object}
====
